---- MODULE Spec2Model ----
(***************************************************************************)
(* GRAP mapping engine and the /api/process pipeline of the SADPMR         *)
(* financial reporting system.                                             *)
(*                                                                         *)
(* Strings whose characters matter (account codes, GRAP codes) are         *)
(* sequences of one-character strings, so that astype(str), equality,      *)
(* str.contains and sorting are computed.  Amounts are integers (cents).   *)
(* A column label is a record with its leading and trailing blanks, so     *)
(* that str.strip() is computed.                                           *)
(***************************************************************************)
EXTENDS Integers, Sequences, FiniteSets, TLC

VARIABLES raw, df, mapped_df, sofp, sofe, ratios, extra_ratios,
          mapping_schema, run, response, data_dir, now,
          file_df, format_check, integrity, tb_validation, mapping_validation,
          statements_validation, second, runs,
          session, users, http

\* the results of the file service, of the validators and of repeated and
\* concurrent runs
aux == <<file_df, format_check, integrity, tb_validation, mapping_validation,
         statements_validation, second, runs>>

\* the session of the browser, the user store (data/users.json), and the
\* request being answered
web == <<session, users, http>>

vars == <<raw, df, mapped_df, sofp, sofe, ratios, extra_ratios,
          mapping_schema, run, response, data_dir, now, aux, web>>

-----------------------------------------------------------------------------
(* Bounds of the explored inputs *)

\* rows of a trial balance
MaxRows == 2
\* largest debit or credit amount of a row, in cents
MaxAmt == 1
\* seconds the clock may advance
MaxClock == 2

-----------------------------------------------------------------------------
(* Cells: the typed values of a table *)

Int64(n) == [t |-> "int", n |-> n, s |-> <<>>]
Float64(n) == [t |-> "float", n |-> n, s |-> <<>>]
Str(s) == [t |-> "str", n |-> 0, s |-> s]
NaN == [t |-> "nan", n |-> 0, s |-> <<>>]

isna(c) == c.t = "nan"
IsNumber(c) == c.t \in {"int", "float"}

\* decimal digits of a natural number
Digit(d) == <<"0","1","2","3","4","5","6","7","8","9">>[d + 1]

RECURSIVE Digits(_)
Digits(n) == IF n < 10 THEN <<Digit(n)>> ELSE Digits(n \div 10) \o <<Digit(n % 10)>>

\* str(value) of one cell, as Series.astype(str) applies it
astype_str(c) ==
    CASE c.t = "str" -> c.s
      [] c.t = "int" -> IF c.n < 0 THEN <<"-">> \o Digits(-c.n) ELSE Digits(c.n)
      [] c.t = "float" -> (IF c.n < 0 THEN <<"-">> \o Digits(-c.n) ELSE Digits(c.n)) \o <<".","0">>
      [] c.t = "nan" -> <<"n","a","n">>

\* a - b on two numeric cells; NaN propagates
Sub(a, b) ==
    IF isna(a) \/ isna(b) THEN NaN
    ELSE IF a.t = "float" \/ b.t = "float" THEN Float64(a.n - b.n)
    ELSE Int64(a.n - b.n)

Abs(n) == IF n < 0 THEN -n ELSE n

\* Series.abs() on one cell
AbsCell(c) == IF isna(c) THEN c ELSE [c EXCEPT !.n = Abs(c.n)]

-----------------------------------------------------------------------------
(* Character strings *)

Alphabet == <<"-",".","0","1","2","3","4","5","6","7","8","9",
              "A","C","E","L","N","P","R","V","X","a","n">>

Ord(c) == CHOOSE i \in 1..Len(Alphabet) : Alphabet[i] = c

\* s < t in the lexicographic order of Python strings
RECURSIVE LexLess(_, _)
LexLess(s, t) ==
    IF t = <<>> THEN FALSE
    ELSE IF s = <<>> THEN TRUE
    ELSE IF Head(s) = Head(t) THEN LexLess(Tail(s), Tail(t))
    ELSE Ord(Head(s)) < Ord(Head(t))

startswith(s, p) == Len(p) <= Len(s) /\ SubSeq(s, 1, Len(p)) = p

\* re.search of a literal pattern: p occurs somewhere in s
IsSubstring(p, s) ==
    \E i \in 1..(Len(s) - Len(p) + 1) : SubSeq(s, i, i + Len(p) - 1) = p

\* Series.str.contains('p1|p2', na=False) on one cell
str_contains(c, pats) ==
    IF c.t # "str" THEN FALSE ELSE \E p \in pats : IsSubstring(p, c.s)

CA == <<"C","A","-">>
NCA == <<"N","C","A","-">>
CL == <<"C","L","-">>
NCL == <<"N","C","L","-">>
NA == <<"N","A","-">>
REV == <<"R","E","V","-">>
EXP == <<"E","X","P","-">>

-----------------------------------------------------------------------------
(* Column labels and data frames *)

L(name) == [lead |-> 0, name |-> name, trail |-> 0]

\* str.strip() of a label
strip(l) == [l EXCEPT !.lead = 0, !.trail = 0]

DataFrame(columns, rows) == [columns |-> columns, rows |-> rows]

HasColumn(frame, c) == \E i \in 1..Len(frame.columns) : frame.columns[i] = c

\* positions of the columns labelled c
Locs(frame, c) == {i \in 1..Len(frame.columns) : frame.columns[i] = c}

Loc(frame, c) == CHOOSE i \in Locs(frame, c) : TRUE

\* frame[c] of a uniquely labelled column, as the sequence of its cells
Series(frame, c) == [r \in 1..Len(frame.rows) |-> frame.rows[r][Loc(frame, c)]]

\* Series.sum(): NaN cells are skipped, the empty sum is 0
RECURSIVE SumCells(_)
SumCells(cells) ==
    IF cells = <<>> THEN 0
    ELSE (IF isna(Head(cells)) THEN 0 ELSE Head(cells).n) + SumCells(Tail(cells))

-----------------------------------------------------------------------------
(* GRAPMappingEngine._load_mapping_schema *)

mapping ==
    << [index |-> <<"1","0","0","0">>, grap_code |-> <<"C","A","-","0","0","1">>, grap_item |-> "Cash and Cash Equivalents"],
       [index |-> <<"1","1","0","0">>, grap_code |-> <<"C","A","-","0","0","1">>, grap_item |-> "Cash and Cash Equivalents"],
       [index |-> <<"1","2","0","0">>, grap_code |-> <<"C","A","-","0","0","2">>, grap_item |-> "Receivables from Exchange Transactions"],
       [index |-> <<"1","2","1","0">>, grap_code |-> <<"C","A","-","0","0","2">>, grap_item |-> "Receivables from Exchange Transactions"],
       [index |-> <<"1","2","5","0">>, grap_code |-> <<"C","A","-","0","0","2">>, grap_item |-> "Receivables from Exchange Transactions"],
       [index |-> <<"1","3","0","0">>, grap_code |-> <<"C","A","-","0","0","4">>, grap_item |-> "Inventories"],
       [index |-> <<"1","4","0","0">>, grap_code |-> <<"C","A","-","0","0","3">>, grap_item |-> "Receivables from Non-Exchange Transactions"],
       [index |-> <<"1","5","0","0">>, grap_code |-> <<"C","A","-","0","0","5">>, grap_item |-> "Prepayments"],
       [index |-> <<"1","6","0","0">>, grap_code |-> <<"N","C","A","-","0","0","1">>, grap_item |-> "Property, Plant and Equipment"],
       [index |-> <<"1","7","0","0">>, grap_code |-> <<"N","C","A","-","0","0","2">>, grap_item |-> "Intangible Assets"],
       [index |-> <<"1","8","0","0">>, grap_code |-> <<"N","C","A","-","0","0","3">>, grap_item |-> "Investments"],
       [index |-> <<"2","0","0","0">>, grap_code |-> <<"C","L","-","0","0","1">>, grap_item |-> "Payables from Exchange Transactions"],
       [index |-> <<"2","1","0","0">>, grap_code |-> <<"C","L","-","0","0","2">>, grap_item |-> "Employee Benefit Obligations (Current)"],
       [index |-> <<"2","2","0","0">>, grap_code |-> <<"C","L","-","0","0","3">>, grap_item |-> "Provisions (Current)"],
       [index |-> <<"2","3","0","0">>, grap_code |-> <<"N","C","L","-","0","0","1">>, grap_item |-> "Employee Benefit Obligations (Non-Current)"],
       [index |-> <<"2","4","0","0">>, grap_code |-> <<"N","C","L","-","0","0","2">>, grap_item |-> "Provisions (Non-Current)"],
       [index |-> <<"3","0","0","0">>, grap_code |-> <<"N","A","-","0","0","1">>, grap_item |-> "Accumulated Surplus/(Deficit)"],
       [index |-> <<"4","0","0","0">>, grap_code |-> <<"R","E","V","-","0","0","2">>, grap_item |-> "Revenue from Non-Exchange Transactions"],
       [index |-> <<"4","1","0","0">>, grap_code |-> <<"R","E","V","-","0","0","1">>, grap_item |-> "Revenue from Exchange Transactions"],
       [index |-> <<"4","2","0","0">>, grap_code |-> <<"R","E","V","-","0","0","1">>, grap_item |-> "Revenue from Exchange Transactions"],
       [index |-> <<"5","0","0","0">>, grap_code |-> <<"E","X","P","-","0","0","1">>, grap_item |-> "Employee Costs"],
       [index |-> <<"5","1","0","0">>, grap_code |-> <<"E","X","P","-","0","0","1">>, grap_item |-> "Employee Costs"],
       [index |-> <<"5","2","0","0">>, grap_code |-> <<"E","X","P","-","0","0","1">>, grap_item |-> "Employee Costs"],
       [index |-> <<"6","0","0","0">>, grap_code |-> <<"E","X","P","-","0","0","3">>, grap_item |-> "General Expenses"],
       [index |-> <<"6","1","0","0">>, grap_code |-> <<"E","X","P","-","0","0","2">>, grap_item |-> "Depreciation and Amortisation"],
       [index |-> <<"6","2","0","0">>, grap_code |-> <<"E","X","P","-","0","0","4">>, grap_item |-> "Finance Costs"],
       [index |-> <<"6","3","0","0">>, grap_code |-> <<"E","X","P","-","0","0","3">>, grap_item |-> "General Expenses"] >>

\* pd.DataFrame.from_dict(mapping, orient='index').reset_index()
load_mapping_schema ==
    DataFrame(<<L("index"), L("grap_code"), L("grap_item")>>,
              [i \in 1..Len(mapping) |->
                  <<Str(mapping[i].index), Str(mapping[i].grap_code),
                    Str(<<mapping[i].grap_item>>)>>])

-----------------------------------------------------------------------------
(* Results of calls: a value, or the exception raised *)

Ok(v) == [st |-> "ok", val |-> v]
Raised(e) == [st |-> "raised", exc |-> e]
None == [st |-> "none"]

IsOk(r) == r.st = "ok"

-----------------------------------------------------------------------------
(* GRAPMappingEngine.import_trial_balance *)

ACCOUNT_CODE == L("Account Code")
ACCOUNT_DESCRIPTION == L("Account Description")
DEBIT_BALANCE == L("Debit Balance")
CREDIT_BALANCE == L("Credit Balance")
NET_BALANCE == L("Net Balance")

col_mapping ==
    [n \in {"Acc Code", "AccCode", "Account", "Description", "Debit", "Credit"} |->
        CASE n \in {"Acc Code", "AccCode", "Account"} -> "Account Code"
          [] n = "Description" -> "Account Description"
          [] n = "Debit" -> "Debit Balance"
          [] n = "Credit" -> "Credit Balance"]

\* df.rename(columns=col_mapping) on one label: a label that is a key of the
\* dictionary is replaced, whatever labels the frame already has
rename(l) ==
    IF l.lead = 0 /\ l.trail = 0 /\ l.name \in DOMAIN col_mapping
    THEN L(col_mapping[l.name]) ELSE l

\* pd.read_csv / pd.read_excel: the decoded table, or a parser error
read_file(file) ==
    IF file.parses THEN Ok(DataFrame(file.columns, file.rows)) ELSE Raised("ParserError")

\* an import that computes Net Balance whether or not the file carries one
import_trial_balance_recomputing(file) ==
    LET rd == read_file(file) IN
    IF ~IsOk(rd) THEN rd
    ELSE
      LET renamed == [i \in 1..Len(rd.val.columns) |-> rename(strip(rd.val.columns[i]))]
          fr == DataFrame(renamed, rd.val.rows)
          net(row) == Sub(row[Loc(fr, DEBIT_BALANCE)], row[Loc(fr, CREDIT_BALANCE)])
      IN IF ~HasColumn(fr, DEBIT_BALANCE) \/ ~HasColumn(fr, CREDIT_BALANCE)
         THEN Raised("KeyError")
         ELSE IF Cardinality(Locs(fr, DEBIT_BALANCE)) > 1
                 \/ Cardinality(Locs(fr, CREDIT_BALANCE)) > 1
              THEN Raised("ValueError")
         ELSE IF HasColumn(fr, NET_BALANCE)
              THEN Ok(DataFrame(renamed,
                                [r \in 1..Len(fr.rows) |->
                                   [fr.rows[r] EXCEPT ![Loc(fr, NET_BALANCE)] =
                                                          net(fr.rows[r])]]))
         ELSE Ok(DataFrame(Append(renamed, NET_BALANCE),
                           [r \in 1..Len(fr.rows) |-> Append(fr.rows[r], net(fr.rows[r]))]))

import_trial_balance(file) ==
    LET rd == read_file(file) IN
    IF ~IsOk(rd) THEN rd
    ELSE
      LET stripped == [i \in 1..Len(rd.val.columns) |-> strip(rd.val.columns[i])]
          renamed == [i \in 1..Len(stripped) |-> rename(stripped[i])]
          fr == DataFrame(renamed, rd.val.rows)
      IN IF HasColumn(fr, NET_BALANCE) THEN Ok(fr)
         ELSE IF ~HasColumn(fr, DEBIT_BALANCE) \/ ~HasColumn(fr, CREDIT_BALANCE)
              THEN Raised("KeyError")
         ELSE IF Cardinality(Locs(fr, DEBIT_BALANCE)) > 1
                 \/ Cardinality(Locs(fr, CREDIT_BALANCE)) > 1
              THEN Raised("ValueError")
         ELSE Ok(DataFrame(Append(renamed, NET_BALANCE),
                           [r \in 1..Len(fr.rows) |->
                              Append(fr.rows[r],
                                     Sub(fr.rows[r][Loc(fr, DEBIT_BALANCE)],
                                         fr.rows[r][Loc(fr, CREDIT_BALANCE)]))]))

-----------------------------------------------------------------------------
(* GRAPMappingEngine.map_to_grap *)

\* astype_str_column converting through float: astype(float).astype(str)
astype_str_column_float(frame, c) ==
    DataFrame(frame.columns,
              [r \in 1..Len(frame.rows) |->
                 [i \in 1..Len(frame.columns) |->
                    IF frame.columns[i] = c
                    THEN Str(IF isna(frame.rows[r][i]) THEN <<"n","a","n">>
                             ELSE (IF frame.rows[r][i].t = "str" THEN frame.rows[r][i].s
                                   ELSE Digits(frame.rows[r][i].n)) \o <<".","0">>)
                    ELSE frame.rows[r][i]]])

\* frame[c] = frame[c].astype(str), in place
astype_str_column(frame, c) ==
    DataFrame(frame.columns,
              [r \in 1..Len(frame.rows) |->
                 [i \in 1..Len(frame.columns) |->
                    IF frame.columns[i] = c THEN Str(astype_str(frame.rows[r][i]))
                    ELSE frame.rows[r][i]]])

\* MatchingRows with the key compared by prefix instead of equality
MatchingRows_prefix(right, k) ==
    SelectSeq(right.rows, LAMBDA m : startswith(k.s, m[Loc(right, L("index"))].s))

\* the right rows whose key equals k, in the order of the right frame
MatchingRows(right, k) ==
    SelectSeq(right.rows, LAMBDA m : m[Loc(right, L("index"))] = k)

RECURSIVE Flatten(_)
Flatten(ss) == IF ss = <<>> THEN <<>> ELSE Head(ss) \o Flatten(Tail(ss))

\* labels the two frames share get the suffixes _x and _y
suffix_x ==
    [n \in {"index", "grap_code", "grap_item"} |->
        CASE n = "index" -> "index_x" [] n = "grap_code" -> "grap_code_x"
          [] n = "grap_item" -> "grap_item_x"]

suffix_y ==
    [n \in {"index", "grap_code", "grap_item"} |->
        CASE n = "index" -> "index_y" [] n = "grap_code" -> "grap_code_y"
          [] n = "grap_item" -> "grap_item_y"]

\* pd.merge(left, right, left_on='Account Code', right_on='index', how='left')
merge_left(left, right) ==
    LET k == Loc(left, ACCOUNT_CODE)
        shared == {c \in {right.columns[i] : i \in 1..Len(right.columns)} : HasColumn(left, c)}
        lcols == [i \in 1..Len(left.columns) |->
                    IF left.columns[i] \in shared THEN L(suffix_x[left.columns[i].name])
                    ELSE left.columns[i]]
        rcols == [i \in 1..Len(right.columns) |->
                    IF right.columns[i] \in shared THEN L(suffix_y[right.columns[i].name])
                    ELSE right.columns[i]]
        joined(row) ==
            LET ms == MatchingRows(right, row[k]) IN
            IF ms = <<>> THEN <<row \o [i \in 1..Len(right.columns) |-> NaN]>>
            ELSE [j \in 1..Len(ms) |-> row \o ms[j]]
    IN DataFrame(lcols \o rcols,
                 Flatten([r \in 1..Len(left.rows) |-> joined(left.rows[r])]))

\* map_to_grap that removes from the engine's table the entries it has used
map_to_grap_consuming(schema, trial_balance_df) ==
    IF ~HasColumn(trial_balance_df, ACCOUNT_CODE)
    THEN <<Raised("KeyError"), trial_balance_df, schema>>
    ELSE
      LET tb == astype_str_column(trial_balance_df, ACCOUNT_CODE)
          sch == astype_str_column(schema, L("index"))
          used == {tb.rows[r][Loc(tb, ACCOUNT_CODE)] : r \in 1..Len(tb.rows)}
      IN <<Ok(merge_left(tb, sch)), tb,
           DataFrame(sch.columns, SelectSeq(sch.rows, LAMBDA m : m[1] \notin used))>>

\* returns <<result, the trial balance frame after the call, the mapping after the call>>
map_to_grap(schema, trial_balance_df) ==
    IF ~HasColumn(trial_balance_df, ACCOUNT_CODE)
    THEN <<Raised("KeyError"), trial_balance_df, schema>>
    ELSE
      LET tb == astype_str_column(trial_balance_df, ACCOUNT_CODE)
          sch == astype_str_column(schema, L("index"))
      IN IF Cardinality(Locs(tb, ACCOUNT_CODE)) > 1
         THEN <<Raised("ValueError"), tb, sch>>
         ELSE <<Ok(merge_left(tb, sch)), tb, sch>>

-----------------------------------------------------------------------------
(* Aggregation: groupby(['grap_code', 'grap_item'])['Net Balance'].sum() *)

GRAP_CODE == L("GRAP Code")
LINE_ITEM == L("Line Item")
AMOUNT == L("Amount")

\* the group keys in ascending order (groupby sorts its keys)
RECURSIVE SortKeys(_)
SortKeys(S) ==
    IF S = {} THEN <<>>
    ELSE LET m == CHOOSE k \in S : \A o \in S : ~LexLess(o[1].s, k[1].s)
         IN <<m>> \o SortKeys(S \ {m})

\* SumCell with the aggregation taking the last row of the group (.last())
SumCell_last(cells) == IF cells = <<>> THEN Int64(0) ELSE cells[Len(cells)]

\* the sum of a group as a cell: int64 when every cell is, float64 otherwise
SumCell(cells) ==
    IF \A i \in 1..Len(cells) : cells[i].t = "int" THEN Int64(SumCells(cells))
    ELSE Float64(SumCells(cells))

\* rows whose key is null are dropped; the frame gets the columns
\* ['GRAP Code', 'Line Item', 'Amount']
groupby_sum(mapped) ==
    IF ~HasColumn(mapped, L("grap_code")) \/ ~HasColumn(mapped, L("grap_item"))
       \/ ~HasColumn(mapped, NET_BALANCE)
    THEN Raised("KeyError")
    ELSE IF Cardinality(Locs(mapped, NET_BALANCE)) > 1 THEN Raised("ValueError")
    ELSE
      LET gc == Loc(mapped, L("grap_code"))
          gi == Loc(mapped, L("grap_item"))
          nb == Loc(mapped, NET_BALANCE)
          keyed == SelectSeq(mapped.rows, LAMBDA r : ~isna(r[gc]) /\ ~isna(r[gi]))
          keys == SortKeys({<<keyed[i][gc], keyed[i][gi]>> : i \in 1..Len(keyed)})
          group(k) == SelectSeq(keyed, LAMBDA r : r[gc] = k[1] /\ r[gi] = k[2])
          amount(k) == SumCell([i \in 1..Len(group(k)) |-> group(k)[i][nb]])
      IN Ok(DataFrame(<<GRAP_CODE, LINE_ITEM, AMOUNT>>,
                      [i \in 1..Len(keys) |-> <<keys[i][1], keys[i][2], amount(keys[i])>>]))

\* frame[frame['GRAP Code'].str.contains(pattern, na=False)].copy()
select_contains(frame, pats) ==
    DataFrame(frame.columns, SelectSeq(frame.rows, LAMBDA r : str_contains(r[1], pats)))

\* frame['Amount'] = frame['Amount'].abs()
abs_amount(frame) ==
    DataFrame(frame.columns,
              [i \in 1..Len(frame.rows) |-> [frame.rows[i] EXCEPT ![3] = AbsCell(@)]])

\* frame['Amount'].sum()
amount_sum(frame) == SumCells([i \in 1..Len(frame.rows) |-> frame.rows[i][3]])

-----------------------------------------------------------------------------
(* GRAPMappingEngine.generate_statement_of_financial_position *)

\* generate_statement_of_financial_position with the net assets pattern 'A-'
generate_statement_of_financial_position_pattern(mapped) ==
    LET g == groupby_sum(mapped) IN
    IF ~IsOk(g) THEN g
    ELSE Ok([assets |-> select_contains(g.val, {CA, NCA}),
             liabilities |-> abs_amount(select_contains(g.val, {CL, NCL})),
             net_assets |-> abs_amount(select_contains(g.val, {<<"A","-">>}))])

\* a builder that selects the net assets by the initial N of their code
generate_statement_of_financial_position_initial(mapped) ==
    LET g == groupby_sum(mapped) IN
    IF ~IsOk(g) THEN g
    ELSE Ok([assets |-> select_contains(g.val, {CA, NCA}),
             liabilities |-> abs_amount(select_contains(g.val, {CL, NCL})),
             net_assets |-> abs_amount(select_contains(g.val, {<<"N">>}))])

generate_statement_of_financial_position(mapped) ==
    LET g == groupby_sum(mapped) IN
    IF ~IsOk(g) THEN g
    ELSE Ok([assets |-> select_contains(g.val, {CA, NCA}),
             liabilities |-> abs_amount(select_contains(g.val, {CL, NCL})),
             net_assets |-> abs_amount(select_contains(g.val, {NA}))])

(* GRAPMappingEngine.generate_statement_of_performance *)

\* generate_statement_of_performance without revenue['Amount'].abs()
generate_statement_of_performance_signed(mapped) ==
    LET g == groupby_sum(mapped) IN
    IF ~IsOk(g) THEN g
    ELSE LET revenue == select_contains(g.val, {REV})
             expenses == select_contains(g.val, {EXP})
         IN Ok([revenue |-> revenue, expenses |-> expenses,
                surplus |-> amount_sum(revenue) - amount_sum(expenses)])

generate_statement_of_performance(mapped) ==
    LET g == groupby_sum(mapped) IN
    IF ~IsOk(g) THEN g
    ELSE LET revenue == abs_amount(select_contains(g.val, {REV}))
             expenses == select_contains(g.val, {EXP})
         IN Ok([revenue |-> revenue, expenses |-> expenses,
                surplus |-> amount_sum(revenue) - amount_sum(expenses)])

-----------------------------------------------------------------------------
(* Ratios.  A ratio value is a float: finite (held in hundredths), or the  *)
(* inf / nan that a numpy division by zero returns.                        *)

Finite(h) == [kind |-> "finite", v |-> h]
Inf == [kind |-> "inf", v |-> 0]
NotANumber == [kind |-> "nan", v |-> 0]

\* p / q rounded to the nearest integer, ties to even
RoundDiv(p, q) ==
    LET pp == IF q < 0 THEN -p ELSE p
        qq == Abs(q)
        f == pp \div qq
        r == pp % qq
    IN IF 2 * r < qq THEN f
       ELSE IF 2 * r > qq THEN f + 1
       ELSE IF f % 2 = 0 THEN f ELSE f + 1

\* round(a / b * scale, 2) of numpy numbers, in hundredths
round2_div(a, b, scale) ==
    IF b = 0 THEN (IF a = 0 THEN NotANumber ELSE Inf)
    ELSE Finite(RoundDiv(100 * scale * a, b))

\* guarded with the test "denominator != 0"
guarded_nonzero(a, b, scale) == IF b # 0 THEN round2_div(a, b, scale) ELSE Finite(0)

\* the guard of every ratio: "... if denominator > 0 else 0"
guarded(a, b, scale) == IF b > 0 THEN round2_div(a, b, scale) ELSE Finite(0)

\* GRAPMappingEngine.calculate_ratios
calculate_ratios(position, performance) ==
    LET total_assets == amount_sum(position.assets)
        current_assets == amount_sum(select_contains(position.assets, {CA}))
        total_liabilities == amount_sum(position.liabilities)
        current_liabilities == amount_sum(select_contains(position.liabilities, {CL}))
        total_revenue == amount_sum(performance.revenue)
        total_expenses == amount_sum(performance.expenses)
        net_assets == amount_sum(position.net_assets)
    IN [current_ratio |-> guarded(current_assets, current_liabilities, 1),
        debt_to_equity |-> guarded(total_liabilities, net_assets, 1),
        operating_margin |-> guarded(total_revenue - total_expenses, total_revenue, 100),
        return_on_assets |-> guarded(performance.surplus, total_assets, 100)]

\* utils.helpers.calculate_ratios
helpers_calculate_ratios(sofp_data, sofe_data) ==
    LET total_assets == amount_sum(sofp_data.assets)
        current_assets == amount_sum(select_contains(sofp_data.assets, {CA}))
        total_liabilities == amount_sum(sofp_data.liabilities)
        current_liabilities == amount_sum(select_contains(sofp_data.liabilities, {CL}))
        total_revenue == amount_sum(sofe_data.revenue)
        total_expenses == amount_sum(sofe_data.expenses)
        net_assets == amount_sum(sofp_data.net_assets)
        inventories == amount_sum(DataFrame(sofp_data.assets.columns,
                           SelectSeq(sofp_data.assets.rows,
                                     LAMBDA r : r[1] = Str(<<"C","A","-","0","0","4">>))))
    IN [current_ratio |-> guarded(current_assets, current_liabilities, 1),
        quick_ratio |-> guarded(current_assets - inventories, current_liabilities, 1),
        debt_to_equity |-> guarded(total_liabilities, net_assets, 1),
        debt_to_assets |-> guarded(total_liabilities, total_assets, 1),
        operating_margin |-> guarded(total_revenue - total_expenses, total_revenue, 100),
        return_on_assets |-> guarded(sofe_data.surplus, total_assets, 100),
        return_on_equity |-> guarded(sofe_data.surplus, net_assets, 100),
        asset_turnover |-> guarded(total_revenue, total_assets, 1)]

-----------------------------------------------------------------------------
(* /api/process: process_trial_balance *)

\* the methods class GRAPMappingEngine defines
GRAPMappingEngine_methods ==
    {"__init__", "_load_mapping_schema", "_load_grap_structure", "import_trial_balance",
     "map_to_grap", "generate_statement_of_financial_position",
     "generate_statement_of_performance", "calculate_ratios"}

\* engine.generate_cash_flow_statement(sofp, sofe, mapped_data): the attribute
\* lookup on the engine object
generate_cash_flow_statement(position, performance, mapped) ==
    IF "generate_cash_flow_statement" \in GRAPMappingEngine_methods
    THEN Ok([operating |-> <<>>, investing |-> <<>>, financing |-> <<>>])
    ELSE Raised("AttributeError")

\* mapped_data[mapped_data['grap_code'].isna()]
unmapped_rows(mapped) ==
    SelectSeq(mapped.rows, LAMBDA r : isna(r[Loc(mapped, L("grap_code"))]))

\* unmapped[['Account Code', 'Account Description', 'Net Balance']].to_dict('records')
unmapped_records(mapped, rows) ==
    [i \in 1..Len(rows) |->
        [Account_Code |-> rows[i][Loc(mapped, ACCOUNT_CODE)],
         Account_Description |-> rows[i][Loc(mapped, ACCOUNT_DESCRIPTION)],
         Net_Balance |-> rows[i][Loc(mapped, NET_BALANCE)]]]

\* convert_df_to_serializable: numpy values become Python values
convert_df_to_serializable(frame) ==
    [i \in 1..Len(frame.rows) |->
        [GRAP_Code |-> frame.rows[i][1].s, Line_Item |-> frame.rows[i][2].s,
         Amount |-> frame.rows[i][3].n]]

\* f"results_{datetime.now().strftime('%Y%m%d_%H%M%S')}.json"
results_filename(clock) == <<"results", clock>>

\* the locals of one execution of the handler
NoRun ==
    [trial_balance |-> None, mapped_data |-> None, sofp |-> None, sofe |-> None,
     scf |-> None, ratios |-> None, summary |-> None, results_file |-> None]

Response(code, body) == [code |-> code, body |-> body]

processing_error == Response(500, [success |-> FALSE, error |-> "Processing error"])

\* The handler returns <<locals, response, data directory after the request>>;
\* it is written stage by stage, last stage first.

\* except Exception: the 500 response
Failed(locals, dir) == <<locals, processing_error, dir>>

\* steps 5 and 6 and the write of the results file (lines 253-311)
StoreResults(locals, position, performance, scf, dir, clock) ==
    LET rt == calculate_ratios(position, performance)
        summary == [total_assets |-> amount_sum(position.assets),
                    total_liabilities |-> amount_sum(position.liabilities),
                    net_assets |-> amount_sum(position.net_assets),
                    total_revenue |-> amount_sum(performance.revenue),
                    total_expenses |-> amount_sum(performance.expenses),
                    surplus_deficit |-> performance.surplus,
                    ratios |-> rt,
                    timestamp |-> clock]
        name == results_filename(clock)
        json_data ==
            [summary |-> summary,
             sofp |-> [assets |-> convert_df_to_serializable(position.assets),
                       liabilities |-> convert_df_to_serializable(position.liabilities),
                       net_assets |-> convert_df_to_serializable(position.net_assets)],
             sofe |-> [revenue |-> convert_df_to_serializable(performance.revenue),
                       expenses |-> convert_df_to_serializable(performance.expenses)],
             scf |-> scf]
    IN <<[locals EXCEPT !.ratios = Ok(rt), !.summary = Ok(summary),
                        !.results_file = Ok(name)],
         Response(200, [success |-> TRUE, summary |-> summary, results_file |-> name]),
         {f \in dir : f.name # name} \cup {[name |-> name, data |-> json_data]}>>

\* a handler that has written the results file before the third call
CashFlowStage_storing(locals, mapped, position, performance, dir, clock) ==
    LET scf == generate_cash_flow_statement(position, performance, mapped) IN
    IF ~IsOk(scf)
    THEN <<[locals EXCEPT !.scf = scf], processing_error,
           StoreResults(locals, position, performance, None, dir, clock)[3]>>
    ELSE StoreResults([locals EXCEPT !.scf = scf], position, performance, scf.val, dir, clock)

\* step 4, third call (line 251)
CashFlowStage(locals, mapped, position, performance, dir, clock) ==
    LET scf == generate_cash_flow_statement(position, performance, mapped) IN
    IF ~IsOk(scf) THEN Failed([locals EXCEPT !.scf = scf], dir)
    ELSE StoreResults([locals EXCEPT !.scf = scf], position, performance, scf.val, dir, clock)

\* step 4, second call (line 250)
PerformanceStage(locals, mapped, position, dir, clock) ==
    LET performance == generate_statement_of_performance(mapped) IN
    IF ~IsOk(performance) THEN Failed([locals EXCEPT !.sofe = performance], dir)
    ELSE CashFlowStage([locals EXCEPT !.sofe = performance], mapped, position,
                       performance.val, dir, clock)

\* step 4, first call (line 249)
PositionStage(locals, mapped, dir, clock) ==
    LET position == generate_statement_of_financial_position(mapped) IN
    IF ~IsOk(position) THEN Failed([locals EXCEPT !.sofp = position], dir)
    ELSE PerformanceStage([locals EXCEPT !.sofp = position], mapped, position.val, dir, clock)

\* step 3: the check for unmapped accounts (lines 240-246)
UnmappedGate(locals, mapped, dir, clock) ==
    IF ~HasColumn(mapped, L("grap_code")) THEN Failed(locals, dir)
    ELSE LET unmapped == unmapped_rows(mapped) IN
         IF Len(unmapped) = 0 THEN PositionStage(locals, mapped, dir, clock)
         ELSE IF \E c \in {ACCOUNT_CODE, ACCOUNT_DESCRIPTION, NET_BALANCE} :
                    ~HasColumn(mapped, c)
              THEN Failed(locals, dir)
         ELSE <<locals,
                Response(400, [success |-> FALSE, error |-> "Unmapped accounts detected",
                               unmapped_accounts |-> unmapped_records(mapped, unmapped)]),
                dir>>

\* step 2 (line 237), on a fresh engine (line 231)
MapStage(locals, trial_balance, dir, clock) ==
    LET m == map_to_grap(load_mapping_schema, trial_balance) IN
    IF ~IsOk(m[1])
    THEN Failed([locals EXCEPT !.trial_balance = Ok(m[2]), !.mapped_data = m[1]], dir)
    ELSE UnmappedGate([locals EXCEPT !.trial_balance = Ok(m[2]), !.mapped_data = m[1]],
                      m[1].val, dir, clock)

\* step 1 (line 234)
ImportStage(file, dir, clock) ==
    LET trial_balance == import_trial_balance(file) IN
    IF ~IsOk(trial_balance) THEN Failed([NoRun EXCEPT !.trial_balance = trial_balance], dir)
    ELSE MapStage([NoRun EXCEPT !.trial_balance = trial_balance], trial_balance.val,
                  dir, clock)

process_trial_balance(req, dir, clock) ==
    IF ~req.json THEN Failed(NoRun, dir)
    ELSE IF ~req.filepath \/ ~req.exists
    THEN <<NoRun, Response(404, [success |-> FALSE, error |-> "File not found"]), dir>>
    ELSE ImportStage(req.file, dir, clock)

-----------------------------------------------------------------------------
(* float64 arithmetic on amounts.  A float64 value v is held as the pair     *)
(* <<c, e>> with v * 100 * 2^60 = c * 2^60 + e: c is the amount in cents and *)
(* e the distance of v from c/100.  A value of binade j (2^j <= |v| <        *)
(* 2^(j+1)) is a multiple of 2^(j-52), which is 25 * 2^(j+10) of these units *)

RECURSIVE Pow2(_)
Pow2(n) == IF n = 0 THEN 1 ELSE 2 * Pow2(n - 1)

\* 2^60 mod (25 * 2^m), for m <= 60: 2^m * (2^(60-m) mod 25), and 2^20 mod 25 = 1
TwoPow60Mod(m) == Pow2(m) * (Pow2((60 - m) % 20) % 25)

\* v >= 2^j, for v > 0
AtLeastPow2(c, e, j) ==
    IF j >= 0 THEN c > 100 * Pow2(j) \/ (c = 100 * Pow2(j) /\ e >= 0)
    ELSE c * Pow2(0 - j) > 100 \/ (c * Pow2(0 - j) = 100 /\ e >= 0)

\* the binade of v, for 0.01 <= v < 16
Exponent(c, e) ==
    CHOOSE j \in (0 - 8)..3 : AtLeastPow2(c, e, j) /\ ~AtLeastPow2(c, e, j + 1)

\* round to nearest, ties to even, of an exact v > 0
RoundPositive(c, e) ==
    LET m == Exponent(c, e) + 10
        G == 25 * Pow2(m)
        r == (c * TwoPow60Mod(m) + e) % G
        r2 == (c * TwoPow60Mod(m + 1) + e) % (2 * G)
    IN IF 2 * r < G THEN <<c, e - r>>
       ELSE IF 2 * r > G THEN <<c, e - r + G>>
       ELSE IF r2 = r THEN <<c, e - r>> ELSE <<c, e - r + G>>

\* the float64 nearest to an exact value; a value below one cent that is the
\* exact sum or difference of two float64 of these binades is a float64
FloatRound(v) ==
    IF v[1] = 0 THEN v
    ELSE IF v[1] < 0
    THEN LET a == RoundPositive(0 - v[1], 0 - v[2]) IN <<0 - a[1], 0 - a[2]>>
    ELSE RoundPositive(v[1], v[2])

\* the float64 a decimal amount of the file is parsed to
FloatParse(cents) == FloatRound(<<cents, 0>>)

FloatAdd(a, b) == FloatRound(<<a[1] + b[1], a[2] + b[2]>>)
FloatSub(a, b) == FloatRound(<<a[1] - b[1], a[2] - b[2]>>)
FloatGreater(a, b) == a[1] > b[1] \/ (a[1] = b[1] /\ a[2] > b[2])
FloatAbs(a) == IF FloatGreater(<<0, 0>>, a) THEN <<0 - a[1], 0 - a[2]>> ELSE a

\* Series.sum() of a numeric column, from the left; NaN cells are skipped
RECURSIVE FloatSumFrom(_, _)
FloatSumFrom(acc, cells) ==
    IF cells = <<>> THEN acc
    ELSE FloatSumFrom(IF isna(Head(cells)) THEN acc
                      ELSE FloatAdd(acc, FloatParse(Head(cells).n)),
                      Tail(cells))

FloatSum(cells) == FloatSumFrom(<<0, 0>>, cells)

-----------------------------------------------------------------------------
(* ValidationService.validate_trial_balance_integrity and                  *)
(* validators.validate_trial_balance                                       *)

\* utils.constants.TRIAL_BALANCE_TOLERANCE (0.01), in cents
TRIAL_BALANCE_TOLERANCE == 1

\* a message of a validation result: what was found, and how many rows
Message(kind, count) == [kind |-> kind, count |-> count]

\* len(df[mask]) for a row mask
CountRows(frame, Mask(_)) == Cardinality({r \in 1..Len(frame.rows) : Mask(frame.rows[r])})

\* cell != 0 and cell < 0 of a numeric column: NaN != 0 is True, NaN < 0 False
NotZero(c) == isna(c) \/ c.n # 0
Negative(c) == ~isna(c) /\ c.n < 0

check_required_columns(frame) ==
    LET missing_columns ==
            SelectSeq(<<ACCOUNT_CODE, ACCOUNT_DESCRIPTION>>, LAMBDA c : ~HasColumn(frame, c))
    IN IF missing_columns # <<>>
       THEN <<[kind |-> "Missing required columns", columns |-> missing_columns]>>
       ELSE <<>>

\* df['Account Code'].isna() | (df['Account Code'] == '')
check_empty_account_codes(frame) ==
    IF ~HasColumn(frame, ACCOUNT_CODE) THEN <<>>
    ELSE LET k == Loc(frame, ACCOUNT_CODE)
             n == CountRows(frame, LAMBDA row : isna(row[k]) \/ row[k] = Str(<<>>))
         IN IF n > 0 THEN <<Message("empty account codes", n)>> ELSE <<>>

\* df['Account Code'].duplicated(keep=False): every row whose code occurs on
\* another row too; missing codes are equal to each other
check_duplicate_codes(frame) ==
    IF ~HasColumn(frame, ACCOUNT_CODE) THEN <<>>
    ELSE LET k == Loc(frame, ACCOUNT_CODE)
             n == Cardinality({r \in 1..Len(frame.rows) :
                        \E q \in 1..Len(frame.rows) :
                            q # r /\ frame.rows[q][k] = frame.rows[r][k]})
         IN IF n > 0 THEN <<Message("duplicate account codes", n)>> ELSE <<>>

check_balance_calculations(frame) ==
    IF ~HasColumn(frame, DEBIT_BALANCE) \/ ~HasColumn(frame, CREDIT_BALANCE) THEN <<>>
    ELSE LET d == Loc(frame, DEBIT_BALANCE)
             c == Loc(frame, CREDIT_BALANCE)
             both == CountRows(frame, LAMBDA row : NotZero(row[d]) /\ NotZero(row[c]))
             total_debit == FloatSum(Series(frame, DEBIT_BALANCE))
             total_credit == FloatSum(Series(frame, CREDIT_BALANCE))
         IN (IF both > 0 THEN <<Message("both debit and credit balances", both)>> ELSE <<>>)
            \o (IF FloatGreater(FloatAbs(FloatSub(total_debit, total_credit)),
                                FloatParse(TRIAL_BALANCE_TOLERANCE))
                THEN <<[kind |-> "Trial balance doesn't balance",
                        debit |-> total_debit[1], credit |-> total_credit[1]]>>
                ELSE <<>>)

check_negative_values(frame) ==
    LET count(c) == CountRows(frame, LAMBDA row : Negative(row[Loc(frame, c)]))
    IN (IF HasColumn(frame, DEBIT_BALANCE) /\ count(DEBIT_BALANCE) > 0
        THEN <<Message("negative debit balances", count(DEBIT_BALANCE))>> ELSE <<>>)
       \o (IF HasColumn(frame, CREDIT_BALANCE) /\ count(CREDIT_BALANCE) > 0
           THEN <<Message("negative credit balances", count(CREDIT_BALANCE))>> ELSE <<>>)

\* ValidationService.validate_trial_balance_integrity: the empty-code finding
\* is extended into errors, the other findings into warnings
validate_trial_balance_integrity(frame) ==
    LET errors == check_required_columns(frame) \o check_empty_account_codes(frame)
        warnings == check_duplicate_codes(frame) \o check_balance_calculations(frame)
                    \o check_negative_values(frame)
    IN [valid |-> Len(errors) = 0, errors |-> errors, warnings |-> warnings,
        total_accounts |-> Len(frame.rows)]

\* validate_trial_balance with the empty-code finding appended to warnings
validate_trial_balance_lenient(frame) ==
    LET r == validate_trial_balance_integrity(frame) IN
    [valid |-> check_required_columns(frame) = <<>>,
     errors |-> check_required_columns(frame),
     warnings |-> check_empty_account_codes(frame) \o r.warnings,
     total_accounts |-> r.total_accounts]

\* validators.validate_trial_balance: one function body, the checks in line
validate_trial_balance(frame) ==
    LET has(c) == HasColumn(frame, c)
        cell(row, c) == row[Loc(frame, c)]
        missing_columns ==
            SelectSeq(<<ACCOUNT_CODE, ACCOUNT_DESCRIPTION>>, LAMBDA c : ~has(c))
        empty_codes ==
            CountRows(frame, LAMBDA row : isna(cell(row, ACCOUNT_CODE))
                                             \/ cell(row, ACCOUNT_CODE) = Str(<<>>))
        duplicates ==
            Cardinality({r \in 1..Len(frame.rows) :
                \E q \in 1..Len(frame.rows) :
                    q # r /\ cell(frame.rows[q], ACCOUNT_CODE) = cell(frame.rows[r], ACCOUNT_CODE)})
        both_values ==
            CountRows(frame, LAMBDA row : NotZero(cell(row, DEBIT_BALANCE))
                                             /\ NotZero(cell(row, CREDIT_BALANCE)))
        total_debit == FloatSum(Series(frame, DEBIT_BALANCE))
        total_credit == FloatSum(Series(frame, CREDIT_BALANCE))
        negative_debits == CountRows(frame, LAMBDA row : Negative(cell(row, DEBIT_BALANCE)))
        negative_credits == CountRows(frame, LAMBDA row : Negative(cell(row, CREDIT_BALANCE)))
        errors ==
            (IF missing_columns # <<>>
             THEN <<[kind |-> "Missing required columns", columns |-> missing_columns]>>
             ELSE <<>>)
            \o (IF has(ACCOUNT_CODE) /\ empty_codes > 0
                THEN <<Message("empty account codes", empty_codes)>> ELSE <<>>)
        warnings ==
            (IF has(ACCOUNT_CODE) /\ duplicates > 0
             THEN <<Message("duplicate account codes", duplicates)>> ELSE <<>>)
            \o (IF has(DEBIT_BALANCE) /\ has(CREDIT_BALANCE) /\ both_values > 0
                THEN <<Message("both debit and credit balances", both_values)>> ELSE <<>>)
            \o (IF /\ has(DEBIT_BALANCE) /\ has(CREDIT_BALANCE)
                   /\ FloatGreater(FloatAbs(FloatSub(total_debit, total_credit)),
                                   FloatParse(TRIAL_BALANCE_TOLERANCE))
                THEN <<[kind |-> "Trial balance doesn't balance",
                        debit |-> total_debit[1], credit |-> total_credit[1]]>>
                ELSE <<>>)
            \o (IF has(DEBIT_BALANCE) /\ negative_debits > 0
                THEN <<Message("negative debit balances", negative_debits)>> ELSE <<>>)
            \o (IF has(CREDIT_BALANCE) /\ negative_credits > 0
                THEN <<Message("negative credit balances", negative_credits)>> ELSE <<>>)
    IN [valid |-> Len(errors) = 0, errors |-> errors, warnings |-> warnings,
        total_accounts |-> Len(frame.rows)]

-----------------------------------------------------------------------------
(* ValidationService.validate_grap_mapping *)

\* an exception that carries attributes
RaisedWith(e, detail) == [st |-> "raised", exc |-> e, detail |-> detail]

validate_grap_mapping(mapped) ==
    IF ~HasColumn(mapped, L("grap_code"))
    THEN RaisedWith("MappingError", [account_code |-> None, unmapped |-> 0])
    ELSE LET unmapped_accounts == unmapped_rows(mapped) IN
         IF Len(unmapped_accounts) > 0
         THEN IF \E c \in {ACCOUNT_CODE, ACCOUNT_DESCRIPTION, NET_BALANCE} :
                     ~HasColumn(mapped, c)
              THEN Raised("KeyError")
              ELSE LET unmapped_list == unmapped_records(mapped, unmapped_accounts) IN
                   RaisedWith("MappingError",
                              [account_code |-> unmapped_list[1].Account_Code,
                               unmapped |-> Len(unmapped_accounts)])
         ELSE Ok([total_accounts |-> Len(mapped.rows),
                  mapped_accounts |->
                      CountRows(mapped, LAMBDA row : ~isna(row[Loc(mapped, L("grap_code"))])),
                  unmapped_accounts |-> 0])

-----------------------------------------------------------------------------
(* ValidationService.validate_financial_statements *)

ASSET_CODES == {CA, NCA}
LIABILITY_CODES == {CL, NCL}
EQUITY_CODES == {NA}
REVENUE_CODES == {REV}
EXPENSE_CODES == {EXP}

\* a check against one prefix of the list only, the shortest
validate_grap_codes_raises_first(frame, valid_codes) ==
    /\ HasColumn(frame, GRAP_CODE)
    /\ \E r \in 1..Len(frame.rows) :
          LET c == frame.rows[r][Loc(frame, GRAP_CODE)]
              first == CHOOSE q \in valid_codes : \A o \in valid_codes : Len(q) <= Len(o)
          IN ~(c.t = "str" /\ startswith(c.s, first))

\* _validate_grap_codes: whether it raises ValidationError
\* (~df['GRAP Code'].str.startswith(tuple(valid_codes), na=False) selects a row)
validate_grap_codes_raises(frame, valid_codes) ==
    /\ HasColumn(frame, GRAP_CODE)
    /\ \E r \in 1..Len(frame.rows) :
          LET c == frame.rows[r][Loc(frame, GRAP_CODE)] IN
          ~(c.t = "str" /\ \E q \in valid_codes : startswith(c.s, q))

\* the five calls of _validate_grap_codes, in the order they are made
sections_checked ==
    <<<<"sofp", "assets", ASSET_CODES>>, <<"sofp", "liabilities", LIABILITY_CODES>>,
      <<"sofp", "net_assets", EQUITY_CODES>>, <<"sofe", "revenue", REVENUE_CODES>>,
      <<"sofe", "expenses", EXPENSE_CODES>>>>

\* the statements are dictionaries: sofp['assets'] on a dictionary without
\* the key raises KeyError
validate_financial_statements(position, performance) ==
    LET errors ==
            (IF {"assets", "liabilities", "net_assets"} \subseteq DOMAIN position THEN <<>>
             ELSE <<"Statement of Financial Position missing required sections">>)
            \o (IF {"revenue", "expenses", "surplus"} \subseteq DOMAIN performance THEN <<>>
                ELSE <<"Statement of Financial Performance missing required sections">>)
        arg(i) == IF sections_checked[i][1] = "sofp" THEN position ELSE performance
        missing(i) == sections_checked[i][2] \notin DOMAIN arg(i)
        stops == {i \in 1..Len(sections_checked) :
                     \/ missing(i)
                     \/ validate_grap_codes_raises(arg(i)[sections_checked[i][2]],
                                                   sections_checked[i][3])}
    IN IF stops # {}
       THEN (IF missing(CHOOSE i \in stops : \A j \in stops : i <= j)
             THEN Raised("KeyError") ELSE Raised("ValidationError"))
       ELSE IF errors # <<>> THEN Raised("ValidationError")
       ELSE Ok(TRUE)

-----------------------------------------------------------------------------
(* FileService.read_trial_balance_file and validators.validate_file_format *)

COLUMN_MAPPINGS == col_mapping

REQUIRED_COLUMNS == <<ACCOUNT_CODE, ACCOUNT_DESCRIPTION>>

\* df.columns.str.strip() followed by df.rename(columns=COLUMN_MAPPINGS), and
\* [COLUMN_MAPPINGS.get(col.strip(), col.strip()) for col in df.columns]
normalised_columns(columns) ==
    [i \in 1..Len(columns) |->
        LET c == strip(columns[i]) IN
        IF c.name \in DOMAIN COLUMN_MAPPINGS THEN L(COLUMN_MAPPINGS[c.name]) ELSE c]

\* exceptions other than ValidationError and FileProcessingError leave the
\* function as FileProcessingError
read_trial_balance_file(file) ==
    LET rd == read_file(file) IN
    IF ~IsOk(rd) THEN Raised("FileProcessingError")
    ELSE
      LET fr == DataFrame(normalised_columns(rd.val.columns), rd.val.rows)
          missing_columns == SelectSeq(REQUIRED_COLUMNS, LAMBDA c : ~HasColumn(fr, c))
      IN IF missing_columns # <<>> THEN Raised("ValidationError")
         ELSE IF HasColumn(fr, NET_BALANCE) THEN Ok(fr)
         ELSE IF ~(HasColumn(fr, DEBIT_BALANCE) /\ HasColumn(fr, CREDIT_BALANCE))
              THEN Raised("ValidationError")
         ELSE IF Cardinality(Locs(fr, DEBIT_BALANCE)) > 1
                 \/ Cardinality(Locs(fr, CREDIT_BALANCE)) > 1
              THEN Raised("FileProcessingError")
         ELSE Ok(DataFrame(Append(fr.columns, NET_BALANCE),
                           [r \in 1..Len(fr.rows) |->
                              Append(fr.rows[r],
                                     Sub(fr.rows[r][Loc(fr, DEBIT_BALANCE)],
                                         fr.rows[r][Loc(fr, CREDIT_BALANCE)]))]))

\* returns (valid, message); columns are the labels of the local frame when
\* the function returns
validate_file_format(allowed_extension, file) ==
    IF ~allowed_extension
    THEN [valid |-> FALSE, message |-> "Invalid file format", columns |-> <<>>]
    ELSE
      LET rd == read_file(file) IN
      IF ~IsOk(rd)
      THEN [valid |-> FALSE, message |-> "Error reading file", columns |-> <<>>]
      ELSE IF Len(rd.val.rows) = 0 \/ Len(rd.val.columns) = 0
      THEN [valid |-> FALSE, message |-> "The uploaded file is empty.",
            columns |-> rd.val.columns]
      ELSE
        LET fr == DataFrame(normalised_columns(rd.val.columns), rd.val.rows) IN
        IF \E i \in 1..Len(REQUIRED_COLUMNS) : ~HasColumn(fr, REQUIRED_COLUMNS[i])
        THEN [valid |-> FALSE, message |-> "Missing required columns",
              columns |-> fr.columns]
        ELSE IF ~HasColumn(fr, DEBIT_BALANCE) /\ ~HasColumn(fr, CREDIT_BALANCE)
        THEN [valid |-> FALSE,
              message |-> "File must contain either Debit Balance or Credit Balance columns.",
              columns |-> fr.columns]
        ELSE [valid |-> TRUE, message |-> "File format is valid.", columns |-> fr.columns]

-----------------------------------------------------------------------------
(* Inputs: the uploaded files the runs are explored over *)

Seqs(S, n) == UNION {[1..k -> S] : k \in 0..n}

\* a ledger account: its code cell and its debit and credit amounts
LedgerRow(code, debit, credit) == [code |-> code, debit |-> debit, credit |-> credit]

\* the cell of one column of a layout for the r-th account; an account's
\* amounts are whole currency units, a cell holds cents
FieldCell(field, acc, r) ==
    CASE field = "code" -> acc.code
      [] field = "desc" -> Str(<<"r">> \o Digits(r))
      [] field = "debit" -> Int64(100 * acc.debit)
      [] field = "credit" -> Int64(100 * acc.credit)
      [] field = "net" -> Int64(100 * (acc.debit - acc.credit))
      [] field = "other" -> Str(<<"A">>)
      [] field = "zero" -> Int64(0)
      [] field = "blank" -> NaN
      [] field = "debit_cents" -> Float64(acc.debit)
      [] field = "credit_cents" -> Float64(acc.credit)

\* a file whose header is the layout's labels and whose rows are the accounts
MakeFile(layout, accounts) ==
    [parses |-> TRUE,
     columns |-> [i \in 1..Len(layout) |-> layout[i][1]],
     rows |-> [r \in 1..Len(accounts) |->
                 [i \in 1..Len(layout) |-> FieldCell(layout[i][2], accounts[r], r)]]]

Garbage == [parses |-> FALSE, columns |-> <<>>, rows |-> <<>>]

Padded(name, lead, trail) == [lead |-> lead, name |-> name, trail |-> trail]

Canonical ==
    <<<<ACCOUNT_CODE, "code">>, <<ACCOUNT_DESCRIPTION, "desc">>,
      <<DEBIT_BALANCE, "debit">>, <<CREDIT_BALANCE, "credit">>>>

Variants ==
    <<<<Padded("Acc Code", 1, 0), "code">>, <<Padded("Description", 0, 1), "desc">>,
      <<L("Debit"), "debit">>, <<L("Credit"), "credit">>>>

NoDescription ==
    <<<<ACCOUNT_CODE, "code">>, <<DEBIT_BALANCE, "debit">>, <<CREDIT_BALANCE, "credit">>>>

WithNet ==
    <<<<ACCOUNT_CODE, "code">>, <<ACCOUNT_DESCRIPTION, "desc">>, <<NET_BALANCE, "net">>>>

NoCredit ==
    <<<<ACCOUNT_CODE, "code">>, <<ACCOUNT_DESCRIPTION, "desc">>, <<DEBIT_BALANCE, "debit">>>>

NoCode ==
    <<<<ACCOUNT_DESCRIPTION, "desc">>, <<DEBIT_BALANCE, "debit">>,
      <<CREDIT_BALANCE, "credit">>>>

Layouts == {Canonical, Variants, NoDescription, WithNet, NoCredit, NoCode}

\* debit and credit of an account: one side carries the balance
AmountPairs == {<<a, 0>> : a \in 1..MaxAmt} \cup {<<0, a>> : a \in 1..MaxAmt}

C1000 == <<"1","0","0","0">>
C1600 == <<"1","6","0","0">>
C2000 == <<"2","0","0","0">>
C2300 == <<"2","3","0","0">>
C3000 == <<"3","0","0","0">>
C4100 == <<"4","1","0","0">>
C5000 == <<"5","0","0","0">>
C9999 == <<"9","9","9","9">>

\* the accounts of the statement runs: one account of every statement group,
\* current and non-current; a code may occur on several rows
EngineCodes == {C1000, C1600, C2000, C2300, C3000, C4100, C5000}

EngineAccounts ==
    {LedgerRow(Str(c), p[1], p[2]) : c \in EngineCodes, p \in AmountPairs}

\* a ledger export lists its accounts in account code order
InLedgerOrder(accounts) ==
    \A i \in 1..(Len(accounts) - 1) : ~LexLess(accounts[i + 1].code.s, accounts[i].code.s)

EngineFiles ==
    {MakeFile(Canonical, a) : a \in {s \in Seqs(EngineAccounts, MaxRows) : InLedgerOrder(s)}}

\* the code cells of the classification runs: keys, near-keys and the
\* numeric cells a decoded table can hold
MapCodeCells ==
    {Str(C1000), Str(C2000), Str(C9999), Str(<<"1","0","0">>),
     Str(<<"0","1","0","0","0">>), Str(<<"1","0","0","0","0">>),
     Int64(1000), Int64(9999), Float64(1000), NaN}

\* a column has one dtype: int64, float64 (NaN allowed) or object (NaN allowed)
OneDtype(accounts) ==
    \/ \A i \in 1..Len(accounts) : accounts[i].code.t = "int"
    \/ \A i \in 1..Len(accounts) : accounts[i].code.t \in {"float", "nan"}
    \/ \A i \in 1..Len(accounts) : accounts[i].code.t \in {"str", "nan"}

MapAccounts == {LedgerRow(c, 1, 0) : c \in MapCodeCells}

MapFiles ==
    {MakeFile(Canonical, a) : a \in {s \in Seqs(MapAccounts, MaxRows) : OneDtype(s)}}

\* the requests of the pipeline runs
PipelineAccounts ==
    {LedgerRow(Str(c), p[1], p[2]) :
        c \in {C1000, C2000, C9999}, p \in {<<MaxAmt, 0>>, <<0, MaxAmt>>}}

PipelineFiles ==
    {MakeFile(l, a) : l \in Layouts, a \in Seqs(PipelineAccounts, MaxRows)} \cup {Garbage}

Requests ==
    {[json |-> TRUE, filepath |-> TRUE, exists |-> TRUE, file |-> f] : f \in PipelineFiles}
    \cup {[json |-> j, filepath |-> p, exists |-> e, file |-> Garbage] :
             j \in BOOLEAN, p \in BOOLEAN, e \in BOOLEAN}

-----------------------------------------------------------------------------
(* The pipeline: requests to /api/process, one whole handler per step *)

Init ==
    /\ raw = None /\ df = None /\ mapped_df = None /\ sofp = None /\ sofe = None
    /\ ratios = None /\ extra_ratios = None
    /\ mapping_schema = load_mapping_schema
    /\ run = NoRun /\ response = None /\ data_dir = {} /\ now = 0
    /\ file_df = None /\ format_check = None /\ integrity = None
    /\ tb_validation = None /\ mapping_validation = None
    /\ statements_validation = None /\ second = None /\ runs = None
    /\ session = None /\ users = None /\ http = None

\* one request, handled from its arrival to its response
Process ==
    /\ response = None
    /\ \E req \in Requests :
          LET out == process_trial_balance(req, data_dir, now) IN
          /\ run' = out[1]
          /\ response' = out[2]
          /\ data_dir' = out[3]
          /\ raw' = Ok(req)
    /\ UNCHANGED aux
    /\ UNCHANGED web
    /\ UNCHANGED <<df, mapped_df, sofp, sofe, ratios, extra_ratios, mapping_schema, now>>

\* the response has been sent: the request context and its locals are gone
EndRequest ==
    /\ response # None
    /\ run' = NoRun /\ response' = None /\ raw' = None
    /\ UNCHANGED aux
    /\ UNCHANGED web
    /\ UNCHANGED <<df, mapped_df, sofp, sofe, ratios, extra_ratios, mapping_schema,
                   data_dir, now>>

\* a second of wall-clock time passes
Tick ==
    /\ now < MaxClock
    /\ now' = now + 1
    /\ UNCHANGED aux
    /\ UNCHANGED web
    /\ UNCHANGED <<raw, df, mapped_df, sofp, sofe, ratios, extra_ratios, mapping_schema,
                   run, response, data_dir>>

Next == Process \/ EndRequest \/ Tick

Spec == Init /\ [][Next]_vars

-----------------------------------------------------------------------------
(* The engine: its methods applied one call per step to a drawn file *)

InitFrom(files) ==
    /\ raw \in {Ok(f) : f \in files}
    /\ df = None /\ mapped_df = None /\ sofp = None /\ sofe = None
    /\ ratios = None /\ extra_ratios = None
    /\ mapping_schema = load_mapping_schema
    /\ run = NoRun /\ response = None /\ data_dir = {} /\ now = 0
    /\ file_df = None /\ format_check = None /\ integrity = None
    /\ tb_validation = None /\ mapping_validation = None
    /\ statements_validation = None /\ second = None /\ runs = None
    /\ session = None /\ users = None /\ http = None

ImportTrialBalance ==
    /\ df = None
    /\ df' = import_trial_balance(raw.val)
    /\ UNCHANGED aux
    /\ UNCHANGED web
    /\ UNCHANGED <<raw, mapped_df, sofp, sofe, ratios, extra_ratios, mapping_schema,
                   run, response, data_dir, now>>

MapToGrap ==
    /\ IsOk(df) /\ mapped_df = None
    /\ LET m == map_to_grap(mapping_schema, df.val) IN
        /\ mapped_df' = m[1]
        /\ df' = Ok(m[2])
        /\ mapping_schema' = m[3]
    /\ UNCHANGED aux
    /\ UNCHANGED web
    /\ UNCHANGED <<raw, sofp, sofe, ratios, extra_ratios, run, response, data_dir, now>>

GenerateStatementOfFinancialPosition ==
    /\ IsOk(mapped_df) /\ sofp = None
    /\ sofp' = generate_statement_of_financial_position(mapped_df.val)
    /\ UNCHANGED aux
    /\ UNCHANGED web
    /\ UNCHANGED <<raw, df, mapped_df, sofe, ratios, extra_ratios, mapping_schema,
                   run, response, data_dir, now>>

GenerateStatementOfPerformance ==
    /\ IsOk(mapped_df) /\ sofe = None
    /\ sofe' = generate_statement_of_performance(mapped_df.val)
    /\ UNCHANGED aux
    /\ UNCHANGED web
    /\ UNCHANGED <<raw, df, mapped_df, sofp, ratios, extra_ratios, mapping_schema,
                   run, response, data_dir, now>>

CalculateRatios ==
    /\ IsOk(sofp) /\ IsOk(sofe) /\ ratios = None
    /\ ratios' = Ok(calculate_ratios(sofp.val, sofe.val))
    /\ UNCHANGED aux
    /\ UNCHANGED web
    /\ UNCHANGED <<raw, df, mapped_df, sofp, sofe, extra_ratios, mapping_schema,
                   run, response, data_dir, now>>

HelpersCalculateRatios ==
    /\ IsOk(sofp) /\ IsOk(sofe) /\ extra_ratios = None
    /\ extra_ratios' = Ok(helpers_calculate_ratios(sofp.val, sofe.val))
    /\ UNCHANGED aux
    /\ UNCHANGED web
    /\ UNCHANGED <<raw, df, mapped_df, sofp, sofe, ratios, mapping_schema,
                   run, response, data_dir, now>>

NextEngine ==
    \/ ImportTrialBalance
    \/ MapToGrap
    \/ GenerateStatementOfFinancialPosition
    \/ GenerateStatementOfPerformance
    \/ CalculateRatios
    \/ HelpersCalculateRatios

InitEngine == InitFrom(EngineFiles)

SpecEngine == InitEngine /\ [][NextEngine]_vars

InitMap == InitFrom(MapFiles)

SpecMap == InitMap /\ [][NextEngine]_vars

-----------------------------------------------------------------------------
(* Normalisation: a file is read by the engine, by the file service and by *)
(* the format validator                                                    *)

\* one more label for the account code next to the canonical one
TwoCodes ==
    <<<<ACCOUNT_CODE, "code">>, <<L("Account"), "other">>, <<ACCOUNT_DESCRIPTION, "desc">>,
      <<DEBIT_BALANCE, "debit">>, <<CREDIT_BALANCE, "credit">>>>

TwoDebits ==
    <<<<ACCOUNT_CODE, "code">>, <<ACCOUNT_DESCRIPTION, "desc">>,
      <<DEBIT_BALANCE, "debit">>, <<L("Debit"), "zero">>, <<CREDIT_BALANCE, "credit">>>>

\* a Net Balance column that was not kept up to date
StaleNet ==
    <<<<ACCOUNT_CODE, "code">>, <<ACCOUNT_DESCRIPTION, "desc">>,
      <<DEBIT_BALANCE, "debit">>, <<CREDIT_BALANCE, "credit">>, <<NET_BALANCE, "zero">>>>

\* a Debit Balance column whose cells are empty
BlankDebit ==
    <<<<ACCOUNT_CODE, "code">>, <<ACCOUNT_DESCRIPTION, "desc">>,
      <<DEBIT_BALANCE, "blank">>, <<CREDIT_BALANCE, "credit">>>>

NoAmounts == <<<<ACCOUNT_CODE, "code">>, <<ACCOUNT_DESCRIPTION, "desc">>>>

IngestLayouts == Layouts \cup {TwoCodes, TwoDebits, StaleNet, BlankDebit, NoAmounts}

IngestAccounts ==
    {LedgerRow(Str(c), p[1], p[2]) :
        c \in {C1000, C9999}, p \in {<<MaxAmt, 0>>, <<0, MaxAmt>>}}

IngestFiles ==
    {MakeFile(l, a) : l \in IngestLayouts, a \in Seqs(IngestAccounts, MaxRows)}
    \cup {Garbage}

ReadTrialBalanceFile ==
    /\ file_df = None
    /\ file_df' = read_trial_balance_file(raw.val)
    /\ UNCHANGED web
    /\ UNCHANGED <<raw, df, mapped_df, sofp, sofe, ratios, extra_ratios, mapping_schema,
                   run, response, data_dir, now>>
    /\ UNCHANGED <<format_check, integrity, tb_validation, mapping_validation,
                   statements_validation, second, runs>>

ValidateFileFormat ==
    /\ format_check = None
    /\ \E allowed_extension \in BOOLEAN :
          format_check' = validate_file_format(allowed_extension, raw.val)
    /\ UNCHANGED web
    /\ UNCHANGED <<raw, df, mapped_df, sofp, sofe, ratios, extra_ratios, mapping_schema,
                   run, response, data_dir, now>>
    /\ UNCHANGED <<file_df, integrity, tb_validation, mapping_validation,
                   statements_validation, second, runs>>

NextIngest ==
    \/ ImportTrialBalance
    \/ ReadTrialBalanceFile
    \/ ValidateFileFormat

InitIngest == InitFrom(IngestFiles)

SpecIngest == InitIngest /\ [][NextIngest]_vars

-----------------------------------------------------------------------------
(* The validators: a file is imported, validated raw, mapped, and the       *)
(* mapping validated                                                        *)

\* the accounts of the validation runs: mapped, unmapped and missing codes;
\* one-sided, two-sided and negative balances
ValidateAccounts ==
    {LedgerRow(c, p[1], p[2]) :
        c \in {Str(C1000), Str(C9999), NaN},
        p \in {<<MaxAmt, 0>>, <<0, MaxAmt>>, <<MaxAmt, MaxAmt>>, <<0 - MaxAmt, 0>>}}

\* amounts with decimals: the account's debit and credit are cents
Cents ==
    <<<<ACCOUNT_CODE, "code">>, <<ACCOUNT_DESCRIPTION, "desc">>,
      <<DEBIT_BALANCE, "debit_cents">>, <<CREDIT_BALANCE, "credit_cents">>>>

\* balances that differ by a cent, by two cents, and not at all
CentAccounts ==
    {LedgerRow(Str(C1000), p[1], p[2]) :
        p \in {<<101, 100>>, <<100, 101>>, <<6, 5>>, <<1, 0>>, <<102, 100>>, <<100, 100>>}}

ValidateFiles ==
    {MakeFile(l, a) : l \in {Canonical, NoDescription, NoCode, WithNet},
                      a \in Seqs(ValidateAccounts, MaxRows)}
    \cup {MakeFile(Cents, a) : a \in Seqs(CentAccounts, MaxRows)}

ValidateTrialBalanceIntegrity ==
    /\ IsOk(df) /\ mapped_df = None /\ integrity = None
    /\ integrity' = validate_trial_balance_integrity(df.val)
    /\ UNCHANGED web
    /\ UNCHANGED <<raw, df, mapped_df, sofp, sofe, ratios, extra_ratios, mapping_schema,
                   run, response, data_dir, now>>
    /\ UNCHANGED <<file_df, format_check, tb_validation, mapping_validation,
                   statements_validation, second, runs>>

ValidateTrialBalance ==
    /\ IsOk(df) /\ mapped_df = None /\ integrity # None /\ tb_validation = None
    /\ tb_validation' = validate_trial_balance(df.val)
    /\ UNCHANGED web
    /\ UNCHANGED <<raw, df, mapped_df, sofp, sofe, ratios, extra_ratios, mapping_schema,
                   run, response, data_dir, now>>
    /\ UNCHANGED <<file_df, format_check, integrity, mapping_validation,
                   statements_validation, second, runs>>

ValidateGrapMapping ==
    /\ IsOk(mapped_df) /\ mapping_validation = None
    /\ mapping_validation' = validate_grap_mapping(mapped_df.val)
    /\ UNCHANGED web
    /\ UNCHANGED <<raw, df, mapped_df, sofp, sofe, ratios, extra_ratios, mapping_schema,
                   run, response, data_dir, now>>
    /\ UNCHANGED <<file_df, format_check, integrity, tb_validation,
                   statements_validation, second, runs>>

NextValidate ==
    \/ ImportTrialBalance
    \/ ValidateTrialBalanceIntegrity
    \/ ValidateTrialBalance
    \/ MapToGrap
    \/ ValidateGrapMapping

InitValidate == InitFrom(ValidateFiles)

SpecValidate == InitValidate /\ [][NextValidate]_vars

-----------------------------------------------------------------------------
(* Validation of statements: the statements of a file, as generated, with  *)
(* a section removed or with two groups exchanged                          *)

\* one account for every key of the compiled mapping table
StatementAccounts ==
    {LedgerRow(Str(mapping[i].index), MaxAmt, 0) : i \in DOMAIN mapping}

StatementFiles ==
    {MakeFile(Canonical, a) :
        a \in {s \in Seqs(StatementAccounts, MaxRows) : InLedgerOrder(s)}}

\* a dictionary without some of its keys
Without(dict, keys) == [k \in (DOMAIN dict) \ keys |-> dict[k]]

\* the position with the assets and the liabilities groups exchanged
Exchanged(position) ==
    [position EXCEPT !.assets = position.liabilities, !.liabilities = position.assets]

ValidateFinancialStatements ==
    /\ IsOk(sofp) /\ IsOk(sofe) /\ statements_validation = None
    /\ \E removed \in {{}} \cup {{k} : k \in {"assets", "liabilities", "net_assets",
                                              "revenue", "expenses", "surplus"}},
          exchange \in BOOLEAN :
          LET position == Without(IF exchange THEN Exchanged(sofp.val) ELSE sofp.val, removed)
              performance == Without(sofe.val, removed)
          IN statements_validation' =
                 [sofp |-> position, sofe |-> performance,
                  result |-> validate_financial_statements(position, performance)]
    /\ UNCHANGED web
    /\ UNCHANGED <<raw, df, mapped_df, sofp, sofe, ratios, extra_ratios, mapping_schema,
                   run, response, data_dir, now>>
    /\ UNCHANGED <<file_df, format_check, integrity, tb_validation, mapping_validation,
                   second, runs>>

NextStatements ==
    \/ ImportTrialBalance
    \/ MapToGrap
    \/ GenerateStatementOfFinancialPosition
    \/ GenerateStatementOfPerformance
    \/ ValidateFinancialStatements

InitStatements == InitFrom(StatementFiles)

SpecStatements == InitStatements /\ [][NextStatements]_vars

-----------------------------------------------------------------------------
(* Repeated runs: the statements of a file are generated, and generated    *)
(* again on the same engine or on a fresh one                              *)

\* import -> map_to_grap -> the two statements, on an engine whose mapping
\* table is schema; the table after the run is returned with the statements
run_statements(schema, file) ==
    LET tb == import_trial_balance(file) IN
    IF ~IsOk(tb) THEN [sofp |-> tb, sofe |-> tb, mapping_schema |-> schema]
    ELSE LET m == map_to_grap(schema, tb.val) IN
         IF ~IsOk(m[1]) THEN [sofp |-> m[1], sofe |-> m[1], mapping_schema |-> m[3]]
         ELSE [sofp |-> generate_statement_of_financial_position(m[1].val),
               sofe |-> generate_statement_of_performance(m[1].val),
               mapping_schema |-> m[3]]

RepeatAccounts ==
    {LedgerRow(c, p[1], p[2]) :
        c \in {Str(C1000), Str(C2000), Str(C4100), Str(C9999), Int64(1000), Int64(1600)},
        p \in {<<MaxAmt, 0>>, <<0, MaxAmt>>}}

RepeatFiles ==
    {MakeFile(Canonical, a) : a \in {s \in Seqs(RepeatAccounts, MaxRows) : OneDtype(s)}}

RunAgain ==
    /\ IsOk(sofp) /\ IsOk(sofe) /\ second = None
    /\ \E same_engine \in BOOLEAN :
          LET again == run_statements(IF same_engine THEN mapping_schema
                                      ELSE load_mapping_schema, raw.val)
          IN /\ second' = [same_engine |-> same_engine, sofp |-> again.sofp,
                           sofe |-> again.sofe]
             /\ mapping_schema' = IF same_engine THEN again.mapping_schema
                                  ELSE mapping_schema
    /\ UNCHANGED web
    /\ UNCHANGED <<raw, df, mapped_df, sofp, sofe, ratios, extra_ratios,
                   run, response, data_dir, now>>
    /\ UNCHANGED <<file_df, format_check, integrity, tb_validation, mapping_validation,
                   statements_validation, runs>>

NextRepeat ==
    \/ ImportTrialBalance
    \/ MapToGrap
    \/ GenerateStatementOfFinancialPosition
    \/ GenerateStatementOfPerformance
    \/ RunAgain

InitRepeat == InitFrom(RepeatFiles)

SpecRepeat == InitRepeat /\ [][NextRepeat]_vars

-----------------------------------------------------------------------------
(* Concurrent requests: two executions of process_trial_balance, each on   *)
(* its own thread of the server, over different files.  An execution takes *)
(* its steps one call at a time; the data directory and the clock are      *)
(* shared.                                                                 *)

Threads == {1, 2}

IdleRun ==
    [pc |-> "idle", file |-> None, engine |-> None, locals |-> NoRun, response |-> None]

ConcurrentAccounts == {LedgerRow(Str(c), MaxAmt, 0) : c \in {C1000, C9999}}

ConcurrentFiles == {MakeFile(Canonical, a) : a \in Seqs(ConcurrentAccounts, MaxRows)}

\* lines 224-231: the request is decoded and the engine constructed
StartRun(t) ==
    /\ runs[t].pc = "idle"
    /\ \E f \in ConcurrentFiles, exists \in BOOLEAN :
          /\ \A u \in Threads \ {t} : runs[u].file # Ok(f)
          /\ runs' = [runs EXCEPT ![t] =
                IF exists
                THEN [IdleRun EXCEPT !.pc = "import", !.file = Ok(f),
                                     !.engine = load_mapping_schema]
                ELSE [IdleRun EXCEPT !.pc = "done", !.file = Ok(f),
                         !.response = Response(404, [success |-> FALSE,
                                                     error |-> "File not found"])]]
    /\ UNCHANGED web
    /\ UNCHANGED <<raw, df, mapped_df, sofp, sofe, ratios, extra_ratios, mapping_schema,
                   run, response, data_dir, now>>
    /\ UNCHANGED <<file_df, format_check, integrity, tb_validation, mapping_validation,
                   statements_validation, second>>

\* line 234
ImportStep(t) ==
    /\ runs[t].pc = "import"
    /\ LET trial_balance == import_trial_balance(runs[t].file.val) IN
       runs' = [runs EXCEPT ![t] =
           IF IsOk(trial_balance)
           THEN [@ EXCEPT !.pc = "map", !.locals.trial_balance = trial_balance]
           ELSE [@ EXCEPT !.pc = "done", !.locals.trial_balance = trial_balance,
                          !.response = processing_error]]
    /\ UNCHANGED web
    /\ UNCHANGED <<raw, df, mapped_df, sofp, sofe, ratios, extra_ratios, mapping_schema,
                   run, response, data_dir, now>>
    /\ UNCHANGED <<file_df, format_check, integrity, tb_validation, mapping_validation,
                   statements_validation, second>>

\* line 237, on the engine of this execution
MapStep(t) ==
    /\ runs[t].pc = "map"
    /\ LET m == map_to_grap(runs[t].engine, runs[t].locals.trial_balance.val) IN
       runs' = [runs EXCEPT ![t] =
           [@ EXCEPT !.pc = IF IsOk(m[1]) THEN "statements" ELSE "done",
                     !.locals.trial_balance = Ok(m[2]),
                     !.locals.mapped_data = m[1],
                     !.engine = m[3],
                     !.response = IF IsOk(m[1]) THEN None ELSE processing_error]]
    /\ UNCHANGED web
    /\ UNCHANGED <<raw, df, mapped_df, sofp, sofe, ratios, extra_ratios, mapping_schema,
                   run, response, data_dir, now>>
    /\ UNCHANGED <<file_df, format_check, integrity, tb_validation, mapping_validation,
                   statements_validation, second>>

\* lines 240-317: the gate, the statements, and the write of the results file
FinishStep(t) ==
    /\ runs[t].pc = "statements"
    /\ LET out == UnmappedGate(runs[t].locals, runs[t].locals.mapped_data.val,
                               data_dir, now)
       IN /\ runs' = [runs EXCEPT ![t] =
                 [@ EXCEPT !.pc = "done", !.locals = out[1], !.response = out[2]]]
          /\ data_dir' = out[3]
    /\ UNCHANGED web
    /\ UNCHANGED <<raw, df, mapped_df, sofp, sofe, ratios, extra_ratios, mapping_schema,
                   run, response, now>>
    /\ UNCHANGED <<file_df, format_check, integrity, tb_validation, mapping_validation,
                   statements_validation, second>>

NextConcurrent ==
    \/ \E t \in Threads : StartRun(t)
    \/ \E t \in Threads : ImportStep(t)
    \/ \E t \in Threads : MapStep(t)
    \/ \E t \in Threads : FinishStep(t)
    \/ Tick

InitConcurrent ==
    /\ raw = None /\ df = None /\ mapped_df = None /\ sofp = None /\ sofe = None
    /\ ratios = None /\ extra_ratios = None
    /\ mapping_schema = load_mapping_schema
    /\ run = NoRun /\ response = None /\ data_dir = {} /\ now = 0
    /\ file_df = None /\ format_check = None /\ integrity = None
    /\ tb_validation = None /\ mapping_validation = None
    /\ statements_validation = None /\ second = None
    /\ session = None /\ users = None /\ http = None
    /\ runs = [t \in Threads |-> IdleRun]

SpecConcurrent == InitConcurrent /\ [][NextConcurrent]_vars

-----------------------------------------------------------------------------
(* Authentication: the user store, the session and the routes.  The user    *)
(* store is the file data/users.json, read again at every call; a password  *)
(* hash is held as the password it was made from.  The session is a         *)
(* function from its keys to their values.  A flashed message is held in    *)
(* the reply of the request that flashed it.                                *)

MaxEdits == 1

UserRecord(id, username, full_name, role) ==
    [id |-> id, username |-> username, password_hash |-> [of |-> "demo123"],
     full_name |-> full_name, role |-> role, is_active |-> TRUE]

demo_users ==
    {UserRecord(1, "cfo@sadpmr.gov.za", "Sarah Nkosi", "CFO"),
     UserRecord(2, "accountant@sadpmr.gov.za", "Thabo Mthembu", "ACCOUNTANT"),
     UserRecord(3, "clerk@sadpmr.gov.za", "Lerato Dlamini", "CLERK"),
     UserRecord(4, "auditor@agsa.gov.za", "AGSA Auditor", "AUDITOR")}

\* username is the value of a form field: Ok(text), or None when the field is absent
get_user_by_username(store, username) ==
    IF IsOk(username) /\ \E user \in store : user.username = username.val
    THEN CHOOSE user \in store : user.username = username.val
    ELSE None

get_user_by_id(store, user_id) ==
    IF \E user \in store : user.id = user_id
    THEN CHOOSE user \in store : user.id = user_id
    ELSE None

\* werkzeug.security.check_password_hash: hashing a password that is None raises
check_password_hash(pwhash, password) ==
    IF IsOk(password) THEN Ok(pwhash.of = password.val) ELSE Raised("AttributeError")

verify_password(store, username, password) ==
    LET user == get_user_by_username(store, username) IN
    IF user = None THEN Ok(None)
    ELSE LET checked == check_password_hash(user.password_hash, password) IN
         IF ~IsOk(checked) THEN checked
         ELSE IF checked.val THEN Ok(user) ELSE Ok(None)

permissions ==
    [CFO |-> {"upload", "process", "approve", "generate_pdf", "view_all", "export"},
     ACCOUNTANT |-> {"upload", "process", "generate_pdf", "view_all"},
     CLERK |-> {"upload", "view_own"},
     AUDITOR |-> {"view_all"}]

has_permission(role, permission) ==
    permission \in (IF role \in DOMAIN permissions THEN permissions[role] ELSE {})

EmptySession == [key \in {} |-> None]

get_current_user(store, sess) ==
    IF "user_id" \in DOMAIN sess THEN get_user_by_id(store, sess["user_id"]) ELSE None

make_session_permanent(sess) ==
    IF "user_id" \in DOMAIN sess THEN ("_permanent" :> TRUE) @@ sess ELSE sess

\* a reply: its status code, the view function whose body ran (NoView when
\* none did), and what it carries
NoView == ""

Reply(code, view, body) == [code |-> code, view |-> view, body |-> body]

redirect(view, endpoint, flashed) ==
    Reply(302, view, [redirect |-> endpoint, flashed |-> flashed])

render_template(view, template, flashed) ==
    Reply(200, view, [template |-> template, flashed |-> flashed])

jsonify(code, view, error) ==
    Reply(code, view, [success |-> FALSE, error |-> error])

\* an exception that leaves the view function
InternalServerError(view, exc) == Reply(500, view, [exception |-> exc])

login_required_open(sess, inner) == inner

login_required(sess, inner) ==
    IF "user_id" \notin DOMAIN sess
    THEN <<sess, redirect(NoView, "login", "Please log in to access this page.")>>
    ELSE inner

permission_required_session(store, sess, permission, inner) ==
    IF "user_id" \notin DOMAIN sess
    THEN <<sess, jsonify(401, NoView, "Authentication required")>>
    ELSE IF get_user_by_id(store, sess["user_id"]) = None
    THEN <<sess, jsonify(401, NoView, "User not found")>>
    ELSE IF ~has_permission(sess["role"], permission)
    THEN <<sess, jsonify(403, NoView, "Permission denied")>>
    ELSE inner

permission_required(store, sess, permission, inner) ==
    IF "user_id" \notin DOMAIN sess
    THEN <<sess, jsonify(401, NoView, "Authentication required")>>
    ELSE LET user_data == get_user_by_id(store, sess["user_id"]) IN
         IF user_data = None
         THEN <<sess, jsonify(401, NoView, "User not found")>>
         ELSE IF ~has_permission(user_data.role, permission)
         THEN <<sess, jsonify(403, NoView, "Permission denied")>>
         ELSE inner

debug_session(store, sess) ==
    <<sess, Reply(200, "debug_session",
                  [session_keys |-> DOMAIN sess, current_user |-> get_current_user(store, sess)])>>

login(store, sess, req) ==
    IF req.method = "POST"
    THEN LET user_data == verify_password(store, req.args.username, req.args.password) IN
         IF ~IsOk(user_data)
         THEN <<sess, InternalServerError("login", user_data.exc)>>
         ELSE IF user_data.val # None /\ user_data.val.is_active
         THEN <<("user_id" :> user_data.val.id) @@ ("username" :> user_data.val.username)
                   @@ ("role" :> user_data.val.role)
                   @@ ("full_name" :> user_data.val.full_name)
                   @@ ("_permanent" :> TRUE) @@ sess,
                redirect("login", "index", "")>>
         ELSE <<sess, render_template("login", "login.html", "Invalid username or password.")>>
    ELSE <<sess, render_template("login", "login.html", "")>>

logout_keeping(sess) == <<sess, redirect("logout", "login", "")>>

logout(sess) == <<EmptySession, redirect("logout", "login", "")>>

\* index, results_page, reports_page, export_page, about_page
page(view, template) == render_template(view, template, "")

upload_page(store, sess) ==
    LET user == get_current_user(store, sess) IN
    IF user = None THEN InternalServerError("upload_page", "AttributeError")
    ELSE IF ~has_permission(user.role, "upload")
    THEN redirect("upload_page", "index", "You do not have permission to upload files.")
    ELSE render_template("upload_page", "upload.html", "")

admin_page_session(store, sess) ==
    IF sess["role"] # "CFO"
    THEN redirect("admin_page", "index",
                  "You do not have permission to access the administration panel.")
    ELSE render_template("admin_page", "admin.html", "")

admin_page(store, sess) ==
    LET user == get_current_user(store, sess) IN
    IF user = None THEN InternalServerError("admin_page", "AttributeError")
    ELSE IF user.role # "CFO"
    THEN redirect("admin_page", "index",
                  "You do not have permission to access the administration panel.")
    ELSE render_template("admin_page", "admin.html", "")

\* the body of upload_trial_balance, by what the request carries as its file
upload_trial_balance(req) ==
    CASE req.args.file = "none" -> jsonify(400, "upload_trial_balance", "No file uploaded")
      [] req.args.file = "no_name" -> jsonify(400, "upload_trial_balance", "No file selected")
      [] req.args.file = "bad_type" -> jsonify(400, "upload_trial_balance", "Invalid file type")
      [] req.args.file = "unreadable" ->
            jsonify(400, "upload_trial_balance", "Invalid file format")
      [] OTHER -> Reply(200, "upload_trial_balance", [success |-> TRUE])

\* the body of generate_pdf
generate_pdf(req, dir) ==
    IF ~req.args.json
    THEN jsonify(500, "generate_pdf", "PDF generation error")
    ELSE IF req.args.results_file = None
    THEN jsonify(400, "generate_pdf", "No results file specified")
    ELSE IF \A stored \in dir : stored.name # req.args.results_file.val
    THEN jsonify(404, "generate_pdf", "Results file not found")
    ELSE Reply(200, "generate_pdf", [success |-> TRUE])

download_file(req) ==
    IF ~req.args.exists THEN Reply(404, "download_file", "File not found")
    ELSE Reply(200, "download_file", "send_file")

\* the rules of the application: the methods each accepts
url_map ==
    [p \in {"/login"} |-> {"GET", "POST"}]
    @@ [p \in {"/api/upload", "/api/process", "/api/generate-pdf"} |-> {"POST"}]
    @@ [p \in {"/logout", "/debug-session", "/", "/upload", "/results", "/reports",
               "/export", "/admin", "/about", "/download/<filename>"} |-> {"GET"}]

templates ==
    [p \in {"/"} |-> <<"index", "index.html">>]
    @@ [p \in {"/results"} |-> <<"results_page", "results.html">>]
    @@ [p \in {"/reports"} |-> <<"reports_page", "reports.html">>]
    @@ [p \in {"/export"} |-> <<"export_page", "export.html">>]
    @@ [p \in {"/about"} |-> <<"about_page", "about.html">>]

\* the body of the /api/process view: the reply of process_trial_balance and
\* the data directory it leaves
process_view(sess, out) ==
    <<sess, Reply(out[2].code, "process_trial_balance", out[2].body), out[3]>>

\* the data directory is as it was unless the view wrote to it
Answer(result, dir) == IF Len(result) = 3 THEN result ELSE result \o <<dir>>

\* the view function of a rule, under its decorators; the result is the
\* session and the reply
view_functions(store, sess, req, dir, clock) ==
    CASE req.path = "/login" -> login(store, sess, req)
      [] req.path = "/logout" -> logout(sess)
      [] req.path = "/debug-session" -> debug_session(store, sess)
      [] req.path \in DOMAIN templates ->
            login_required(sess,
                <<sess, page(templates[req.path][1], templates[req.path][2])>>)
      [] req.path = "/upload" ->
            login_required(sess, <<sess, upload_page(store, sess)>>)
      [] req.path = "/admin" ->
            login_required(sess, <<sess, admin_page(store, sess)>>)
      [] req.path = "/download/<filename>" ->
            login_required(sess, <<sess, download_file(req)>>)
      [] req.path = "/api/upload" ->
            login_required(sess,
                permission_required(store, sess, "upload",
                    <<sess, upload_trial_balance(req)>>))
      [] req.path = "/api/generate-pdf" ->
            login_required(sess,
                permission_required(store, sess, "generate_pdf",
                    <<sess, generate_pdf(req, dir)>>))
      [] req.path = "/api/process" ->
            login_required(sess,
                permission_required(store, sess, "process",
                    process_view(sess, process_trial_balance(req.args, dir, clock))))

\* one request through the application: before_request, routing, the view
dispatch_request(store, sess, req, dir, clock) ==
    IF req.path \notin DOMAIN url_map
    THEN <<sess, Reply(404, NoView, "Not Found"), dir>>
    ELSE IF req.method \notin url_map[req.path]
    THEN <<sess, Reply(405, NoView, "Method Not Allowed"), dir>>
    ELSE Answer(view_functions(store, make_session_permanent(sess), req, dir, clock), dir)

\* the requests explored
Request(path, method, args) == [path |-> path, method |-> method, args |-> args]

NoArgs == [none |-> TRUE]

Usernames == {user.username : user \in demo_users}

LoginForms ==
    {[username |-> u, password |-> p] :
        u \in {Ok(n) : n \in Usernames \cup {"nobody@sadpmr.gov.za"}} \cup {None},
        p \in {Ok("demo123"), Ok("letmein"), None}}

ProcessRequests ==
    {[json |-> j, filepath |-> TRUE, exists |-> TRUE, file |-> Garbage] : j \in BOOLEAN}

PagePaths == {"/", "/upload", "/results", "/reports", "/export", "/admin", "/about"}

ApiPaths == {"/api/upload", "/api/process", "/api/generate-pdf"}

ProtectedPaths == PagePaths \cup ApiPaths \cup {"/download/<filename>"}

WebRequests ==
    {Request("/login", "GET", NoArgs)}
    \cup {Request("/login", "POST", form) : form \in LoginForms}
    \cup {Request(p, "GET", NoArgs) :
             p \in PagePaths \cup ApiPaths \cup {"/logout", "/debug-session", "/favicon.ico"}}
    \cup {Request(p, "POST", NoArgs) : p \in {"/", "/logout"}}
    \cup {Request("/download/<filename>", "GET", [exists |-> e]) : e \in BOOLEAN}
    \cup {Request("/api/upload", "POST", [file |-> f]) : f \in {"none", "bad_type", "ok"}}
    \cup {Request("/api/process", "POST", r) : r \in ProcessRequests}
    \cup {Request("/api/generate-pdf", "POST", [json |-> j, results_file |-> f]) :
             j \in BOOLEAN, f \in {None, Ok("results.json")}}

\* the stores one edit of data/users.json away: a user removed, deactivated,
\* or given another role
Roles == {"CFO", "AUDITOR", "INTERN"}

StoreEdits(store) ==
    {store \ {user} : user \in store}
    \cup {(store \ {user}) \cup {[user EXCEPT !.is_active = FALSE]} : user \in store}
    \cup {(store \ {user}) \cup {[user EXCEPT !.role = r]} :
             user \in {u \in store : u.is_active}, r \in Roles}

Edited(store) == {user \in demo_users : user \notin store}

InitWeb ==
    /\ raw = None /\ df = None /\ mapped_df = None /\ sofp = None /\ sofe = None
    /\ ratios = None /\ extra_ratios = None
    /\ mapping_schema = load_mapping_schema
    /\ run = NoRun /\ response = None /\ data_dir = {} /\ now = 0
    /\ file_df = None /\ format_check = None /\ integrity = None
    /\ tb_validation = None /\ mapping_validation = None
    /\ statements_validation = None /\ second = None /\ runs = None
    /\ session = EmptySession /\ users = demo_users /\ http = None

\* one request, handled from its arrival to its reply
HandleRequest ==
    /\ http = None
    /\ \E req \in WebRequests :
          LET out == dispatch_request(users, session, req, data_dir, now) IN
          /\ session' = out[1]
          /\ http' = [request |-> req, reply |-> out[2]]
          /\ data_dir' = out[3]
    /\ UNCHANGED aux
    /\ UNCHANGED <<raw, df, mapped_df, sofp, sofe, ratios, extra_ratios, mapping_schema,
                   run, response, now, users>>

\* the reply has been sent
Respond ==
    /\ http # None
    /\ http' = None
    /\ UNCHANGED aux
    /\ UNCHANGED <<raw, df, mapped_df, sofp, sofe, ratios, extra_ratios, mapping_schema,
                   run, response, data_dir, now, session, users>>

\* data/users.json is edited between two requests
EditUserStore ==
    /\ http = None
    /\ \E store \in StoreEdits(users) :
          /\ Cardinality(Edited(store)) <= MaxEdits
          /\ users' = store
    /\ UNCHANGED aux
    /\ UNCHANGED <<raw, df, mapped_df, sofp, sofe, ratios, extra_ratios, mapping_schema,
                   run, response, data_dir, now, session, http>>

\* PERMANENT_SESSION_LIFETIME has passed: the browser holds no session
SessionExpires ==
    /\ http = None
    /\ "user_id" \in DOMAIN session
    /\ session' = EmptySession
    /\ UNCHANGED aux
    /\ UNCHANGED <<raw, df, mapped_df, sofp, sofe, ratios, extra_ratios, mapping_schema,
                   run, response, data_dir, now, users, http>>

NextWeb == HandleRequest \/ Respond \/ EditUserStore \/ SessionExpires

SpecWeb == InitWeb /\ [][NextWeb]_vars

-----------------------------------------------------------------------------
(* Definitions the properties are stated with *)

\* the keys of the compiled mapping table
MappingKeys == {mapping[i].index : i \in 1..Len(mapping)}

\* the entry of the compiled table for a key
EntryOf(k) == mapping[CHOOSE i \in 1..Len(mapping) : mapping[i].index = k]

RECURSIVE SumOver(_, _)
SumOver(f, S) ==
    IF S = {} THEN 0 ELSE LET x == CHOOSE x \in S : TRUE IN f[x] + SumOver(f, S \ {x})

\* the rows of a mapped frame whose grap_code starts with one of the prefixes
RowsWithPrefix(mapped, prefixes) ==
    {i \in 1..Len(mapped.rows) :
        LET c == mapped.rows[i][Loc(mapped, L("grap_code"))] IN
        c.t = "str" /\ \E q \in prefixes : startswith(c.s, q)}

\* the sum of the per-account net balances of a set of rows
NetOfRows(mapped, S) ==
    SumOver([i \in 1..Len(mapped.rows) |-> mapped.rows[i][Loc(mapped, NET_BALANCE)].n], S)

\* the rows of a mapped frame that carry the GRAP code c
RowsOfCode(mapped, c) ==
    {i \in 1..Len(mapped.rows) : mapped.rows[i][Loc(mapped, L("grap_code"))] = Str(c)}

\* the GRAP codes of a set of rows
CodesOfRows(mapped, S) == {mapped.rows[i][Loc(mapped, L("grap_code"))].s : i \in S}

\* the rows of a mapped frame that carry a GRAP code
MappedRows(mapped) ==
    {i \in 1..Len(mapped.rows) : ~isna(mapped.rows[i][Loc(mapped, L("grap_code"))])}

\* the last request named an existing, readable file
HandledFile == IsOk(raw) /\ raw.val.json /\ raw.val.filepath /\ raw.val.exists

-----------------------------------------------------------------------------
(* C1 *)

\* the rows of the mapped trial balance of the last run that have no GRAP code
NullRows ==
    {i \in 1..Len(run.mapped_data.val.rows) :
        isna(run.mapped_data.val.rows[i][Loc(run.mapped_data.val, L("grap_code"))])}

RunHasUnmapped ==
    /\ response # None
    /\ IsOk(run.mapped_data)
    /\ HasColumn(run.mapped_data.val, L("grap_code"))
    /\ NullRows # {}

\* C1: when a row of the mapped trial balance has a null grap_code, the run
\* produces no statement, no ratio and no results file, and ends with an error
\* response whose unmapped_accounts list holds exactly the rows with a null
\* grap_code, in order, each as its account code, description and net balance.
C1_HardGate ==
    RunHasUnmapped =>
        /\ run.sofp = None /\ run.sofe = None /\ run.scf = None
        /\ run.ratios = None /\ run.summary = None /\ run.results_file = None
        /\ data_dir = {}
        /\ response.body.success = FALSE
        /\ "unmapped_accounts" \in DOMAIN response.body
        /\ LET tb == run.trial_balance.val
               listed == response.body.unmapped_accounts
               nulls == SelectSeq([i \in 1..Len(tb.rows) |-> i], LAMBDA i : i \in NullRows)
           IN /\ Len(listed) = Len(nulls)
              /\ \A j \in 1..Len(nulls) :
                    /\ listed[j].Account_Code = tb.rows[nulls[j]][Loc(tb, ACCOUNT_CODE)]
                    /\ listed[j].Net_Balance = tb.rows[nulls[j]][Loc(tb, NET_BALANCE)]
                    /\ listed[j].Account_Description = Str(<<"r">> \o Digits(nulls[j]))

\* C1, the part the handler keeps: with an unmapped row no statement, ratio or
\* results file is produced and the response reports a failure
C1_NoStatementFromUnmapped ==
    RunHasUnmapped =>
        /\ run.sofp = None /\ run.sofe = None /\ run.scf = None
        /\ run.ratios = None /\ run.summary = None /\ run.results_file = None
        /\ data_dir = {}
        /\ response.body.success = FALSE

-----------------------------------------------------------------------------
(* C2 *)

\* the last request named an existing file in the canonical layout, with at
\* least one account, whose every account code is a key of the mapping table
FullyMappedFile ==
    /\ HandledFile
    /\ raw.val.file.parses
    /\ raw.val.file.columns = [i \in 1..Len(Canonical) |-> Canonical[i][1]]
    /\ Len(raw.val.file.rows) > 0
    /\ \A r \in 1..Len(raw.val.file.rows) :
          astype_str(raw.val.file.rows[r][1]) \in MappingKeys

\* C2: a processing run over an existing file whose every account code is in
\* the mapping table ends in success, and the results file holds the keys
\* summary, sofp, sofe and scf.
C2_FullyMappedRunSucceeds ==
    (response # None /\ FullyMappedFile) =>
        /\ response.code = 200
        /\ response.body.success = TRUE
        /\ \E f \in data_dir :
              /\ f.name = response.body.results_file
              /\ DOMAIN f.data = {"summary", "sofp", "sofe", "scf"}

-----------------------------------------------------------------------------
(* C4 *)

\* the amount of the line item with GRAP code c in a statement group, 0 if absent
LineAmount(frame, c) ==
    amount_sum(DataFrame(frame.columns, SelectSeq(frame.rows, LAMBDA r : r[1] = Str(c))))

\* C4: the cash flow statement follows the indirect method: operating =
\* surplus + depreciation (EXP-002) + working-capital adjustment, investing is
\* the NCA-001 net balance when negative and 0 otherwise, financing is the net
\* balance of the NCL- accounts, and net_movement is the sum of the three.
C4_CashFlowIndirectMethod ==
    (response # None /\ IsOk(run.sofp) /\ IsOk(run.sofe)
        /\ Len(run.mapped_data.val.rows) > 0) =>
        /\ IsOk(run.scf)
        /\ LET m == run.mapped_data.val
               depreciation == LineAmount(run.sofe.val.expenses, <<"E","X","P","-","0","0","2">>)
               receivables == NetOfRows(m, RowsWithPrefix(m, {<<"C","A","-","0","0">>}))
               payables == NetOfRows(m, RowsWithPrefix(m, {<<"C","L","-","0","0">>}))
               capex == NetOfRows(m, RowsOfCode(m, <<"N","C","A","-","0","0","1">>))
               operating == run.sofe.val.surplus + depreciation - (receivables - payables)
               investing == IF capex < 0 THEN capex ELSE 0
               financing == NetOfRows(m, RowsWithPrefix(m, {NCL}))
           IN /\ DOMAIN run.scf.val = {"operating", "investing", "financing",
                                       "operating_total", "investing_total",
                                       "financing_total", "net_movement"}
              /\ run.scf.val.operating_total = operating
              /\ run.scf.val.investing_total = investing
              /\ run.scf.val.financing_total = financing
              /\ run.scf.val.net_movement = operating + investing + financing

-----------------------------------------------------------------------------
(* C3 *)

\* sum(Debit Balance) and sum(Credit Balance) of the imported trial balance
\* agree within the tolerance
Balanced ==
    Abs(SumCells(Series(df.val, DEBIT_BALANCE)) - SumCells(Series(df.val, CREDIT_BALANCE)))
        <= TRIAL_BALANCE_TOLERANCE

\* C3: for a fully mapped trial balance whose debits equal its credits within
\* the tolerance, the assets total equals the liabilities total plus the
\* net_assets total within the same tolerance.
C3_BalanceIdentity ==
    (/\ IsOk(sofp)
     /\ Len(df.val.rows) > 0
     /\ MappedRows(mapped_df.val) = 1..Len(mapped_df.val.rows)
     /\ Balanced) =>
        Abs(amount_sum(sofp.val.assets)
            - (amount_sum(sofp.val.liabilities) + amount_sum(sofp.val.net_assets)))
            <= TRIAL_BALANCE_TOLERANCE

-----------------------------------------------------------------------------
(* C5 *)

\* C5: map_to_grap returns one row per input row, in order; the row carries
\* the table's grap_code and grap_item when str(account code) equals a key of
\* the mapping table and nulls otherwise; an unrecognised code does not raise.
C5_ExactMatchLeftJoin ==
    mapped_df # None =>
        /\ IsOk(mapped_df)
        /\ Len(mapped_df.val.rows) = Len(raw.val.rows)
        /\ \A i \in 1..Len(raw.val.rows) :
              LET m == mapped_df.val
                  row == m.rows[i]
                  k == astype_str(raw.val.rows[i][1])
              IN /\ row[Loc(m, ACCOUNT_CODE)] = Str(k)
                 /\ row[Loc(m, ACCOUNT_DESCRIPTION)] = raw.val.rows[i][2]
                 /\ IF k \in MappingKeys
                    THEN /\ row[Loc(m, L("grap_code"))] = Str(EntryOf(k).grap_code)
                         /\ row[Loc(m, L("grap_item"))] = Str(<<EntryOf(k).grap_item>>)
                    ELSE /\ isna(row[Loc(m, L("grap_code"))])
                         /\ isna(row[Loc(m, L("grap_item"))])

\* a key with a leading zero stays unmapped next to the key itself, mapped
C5_Witness ==
    /\ IsOk(mapped_df)
    /\ Len(mapped_df.val.rows) = 2
    /\ raw.val.rows[1][1] = Str(<<"0","1","0","0","0">>)
    /\ isna(mapped_df.val.rows[1][Loc(mapped_df.val, L("grap_code"))])
    /\ raw.val.rows[2][1] = Str(C1000)
    /\ mapped_df.val.rows[2][Loc(mapped_df.val, L("grap_code"))] = Str(<<"C","A","-","0","0","1">>)

-----------------------------------------------------------------------------
(* C6 *)

\* the line items (GRAP code, amount) of a statement group
GroupItems(frame) == {<<frame.rows[i][1].s, frame.rows[i][3].n>> : i \in 1..Len(frame.rows)}

\* the line items a prefix set stands for: one per GRAP code with such a
\* prefix, its amount the sum of the net balances of the code's accounts
ExpectedItems(mapped, prefixes, absolute) ==
    {<<c, IF absolute THEN Abs(NetOfRows(mapped, RowsOfCode(mapped, c)))
          ELSE NetOfRows(mapped, RowsOfCode(mapped, c))>> :
        c \in CodesOfRows(mapped, RowsWithPrefix(mapped, prefixes))}

\* the group holds exactly the expected items, each once
IsGroup(frame, mapped, prefixes, absolute) ==
    /\ GroupItems(frame) = ExpectedItems(mapped, prefixes, absolute)
    /\ Len(frame.rows) = Cardinality(ExpectedItems(mapped, prefixes, absolute))

\* C6: assets are exactly the items with prefix CA- or NCA-, in natural sign;
\* liabilities exactly those with prefix CL- or NCL-, as the absolute value of
\* the aggregated sum; net_assets exactly those with prefix NA-, absolute.
C6_PositionPartition ==
    IsOk(sofp) =>
        /\ IsGroup(sofp.val.assets, mapped_df.val, {CA, NCA}, FALSE)
        /\ IsGroup(sofp.val.liabilities, mapped_df.val, {CL, NCL}, TRUE)
        /\ IsGroup(sofp.val.net_assets, mapped_df.val, {NA}, TRUE)

\* a non-current asset with a credit balance keeps its negative sign, and a
\* non-current liability whose aggregated sum is negative is shown positive
C6_Witness ==
    /\ IsOk(sofp)
    /\ \E i \in 1..Len(sofp.val.assets.rows) :
          /\ startswith(sofp.val.assets.rows[i][1].s, NCA)
          /\ sofp.val.assets.rows[i][3].n < 0
    /\ \E j \in 1..Len(sofp.val.liabilities.rows) :
          /\ startswith(sofp.val.liabilities.rows[j][1].s, NCL)
          /\ NetOfRows(mapped_df.val, RowsWithPrefix(mapped_df.val, {NCL})) < 0
          /\ sofp.val.liabilities.rows[j][3].n > 0

-----------------------------------------------------------------------------
(* C7 *)

RECURSIVE SumAmounts(_)
SumAmounts(items) ==
    IF items = {} THEN 0
    ELSE LET x == CHOOSE x \in items : TRUE IN x[2] + SumAmounts(items \ {x})

\* C7: revenue is the REV- items as the absolute value of the aggregated net
\* balance, expenses the EXP- items in natural sign, and surplus the sum of
\* the revenue amounts minus the sum of the expense amounts.
C7_PerformanceStatement ==
    IsOk(sofe) =>
        /\ IsGroup(sofe.val.revenue, mapped_df.val, {REV}, TRUE)
        /\ IsGroup(sofe.val.expenses, mapped_df.val, {EXP}, FALSE)
        /\ sofe.val.surplus = SumAmounts(ExpectedItems(mapped_df.val, {REV}, TRUE))
                              - SumAmounts(ExpectedItems(mapped_df.val, {EXP}, FALSE))

\* a credit-balance revenue account shown positive and no expense: the
\* surplus is the revenue
C7_Witness ==
    /\ IsOk(sofe)
    /\ Len(sofe.val.revenue.rows) = 1
    /\ NetOfRows(mapped_df.val, RowsWithPrefix(mapped_df.val, {REV})) = -200
    /\ sofe.val.revenue.rows[1][3].n = 200
    /\ Len(sofe.val.expenses.rows) = 0
    /\ sofe.val.surplus = 200

-----------------------------------------------------------------------------
(* C8 *)

PrefixSets == {{CA, NCA}, {CL, NCL}, {NA}, {REV}, {EXP}}

\* C8: grouping by (grap_code, grap_item) and selecting the line items of a
\* prefix set gives a signed total equal to the sum of the net balances of
\* the accounts with such a prefix; every line item is selected by exactly one
\* prefix set, and there is one line item per GRAP code of the input.
C8_AggregationConserves ==
    (IsOk(sofp) /\ IsOk(sofe)) =>
        LET m == mapped_df.val
            g == groupby_sum(m)
        IN /\ IsOk(g)
           /\ \A P \in PrefixSets :
                 amount_sum(select_contains(g.val, P)) = NetOfRows(m, RowsWithPrefix(m, P))
           /\ \A i \in 1..Len(g.val.rows) :
                 Cardinality({P \in PrefixSets : str_contains(g.val.rows[i][1], P)}) = 1
           /\ Len(g.val.rows) = Cardinality(CodesOfRows(m, MappedRows(m)))
           /\ amount_sum(sofp.val.assets) = NetOfRows(m, RowsWithPrefix(m, {CA, NCA}))
           /\ amount_sum(sofe.val.expenses) = NetOfRows(m, RowsWithPrefix(m, {EXP}))

\* two rows with the same account code are summed into one line item
C8_Witness ==
    /\ IsOk(sofp) /\ IsOk(sofe)
    /\ Len(mapped_df.val.rows) = 2
    /\ mapped_df.val.rows[1][1] = mapped_df.val.rows[2][1]
    /\ Len(sofp.val.assets.rows) = 1
    /\ sofp.val.assets.rows[1][3].n = 200

-----------------------------------------------------------------------------
(* C9 *)

\* the sum of the amounts of the line items whose code starts with a prefix
PrefixTotal(frame, prefix) ==
    amount_sum(DataFrame(frame.columns,
                         SelectSeq(frame.rows, LAMBDA r : startswith(r[1].s, prefix))))

\* current_assets / current_liabilities over the CA- and CL- items only
CurrentRatioByPrefix ==
    IF PrefixTotal(sofp.val.liabilities, CL) > 0
    THEN Finite(RoundDiv(100 * PrefixTotal(sofp.val.assets, CA),
                         PrefixTotal(sofp.val.liabilities, CL)))
    ELSE Finite(0)

\* C9: current_ratio is the sum of the CA- asset items over the sum of the
\* CL- liability items; NCA- and NCL- items are excluded.
C9_CurrentRatioByPrefix ==
    /\ IsOk(ratios) => ratios.val.current_ratio = CurrentRatioByPrefix
    /\ IsOk(extra_ratios) => extra_ratios.val.current_ratio = CurrentRatioByPrefix

-----------------------------------------------------------------------------
(* C10 *)

\* the denominators calculate_ratios divides by
Denominators ==
    [current_ratio |->
        amount_sum(DataFrame(sofp.val.liabilities.columns,
                             SelectSeq(sofp.val.liabilities.rows,
                                       LAMBDA r : IsSubstring(CL, r[1].s)))),
     debt_to_equity |-> amount_sum(sofp.val.net_assets),
     operating_margin |-> amount_sum(sofe.val.revenue),
     return_on_assets |-> amount_sum(sofp.val.assets)]

\* C10: each of the four ratios is finite, and is exactly 0 whenever its
\* denominator is zero or negative.
C10_DivisionGuard ==
    IsOk(ratios) =>
        \A name \in DOMAIN Denominators :
            /\ ratios.val[name].kind = "finite"
            /\ Denominators[name] <= 0 => ratios.val[name] = Finite(0)

\* total assets negative with a surplus, the other three denominators zero
C10_Witness ==
    /\ IsOk(ratios)
    /\ Denominators.return_on_assets < 0
    /\ sofe.val.surplus # 0
    /\ Denominators.current_ratio = 0
    /\ Denominators.debt_to_equity = 0
    /\ ratios.val.return_on_assets = Finite(0)

-----------------------------------------------------------------------------
(* C11 *)

\* the raw validations made so far
RawValidations == {v \in {integrity, tb_validation} : v # None}

\* a positive count is reported as a warning that carries it
CountedWarning(v, kind, n) ==
    n > 0 => \E i \in 1..Len(v.warnings) : v.warnings[i] = Message(kind, n)

\* the rows of a frame that satisfy a test on the cell of a column; none
\* when the frame has no such column
RowsWhere(frame, c, Test(_)) ==
    IF HasColumn(frame, c)
    THEN {r \in 1..Len(frame.rows) : Test(frame.rows[r][Loc(frame, c)])}
    ELSE {}

\* C11: raw validation is invalid only when Account Code or Account
\* Description is missing; empty codes, duplicate codes, two-sided rows, an
\* imbalance beyond the tolerance and negative balances each add a counted
\* warning and never invalidate; valid is true exactly when errors is empty.
C11_OnlyMissingColumnsBlock ==
    (IsOk(df) /\ mapped_df = None) =>
        \A v \in RawValidations :
            LET f == df.val
                dup == {r \in RowsWhere(f, ACCOUNT_CODE, LAMBDA c : TRUE) :
                           \E q \in 1..Len(f.rows) :
                               q # r /\ f.rows[q][Loc(f, ACCOUNT_CODE)]
                                        = f.rows[r][Loc(f, ACCOUNT_CODE)]}
                both == RowsWhere(f, DEBIT_BALANCE, NotZero)
                            \cap RowsWhere(f, CREDIT_BALANCE, NotZero)
            IN /\ v.valid = (HasColumn(f, ACCOUNT_CODE) /\ HasColumn(f, ACCOUNT_DESCRIPTION))
               /\ v.valid = (v.errors = <<>>)
               /\ CountedWarning(v, "empty account codes",
                                 Cardinality(RowsWhere(f, ACCOUNT_CODE, isna)))
               /\ CountedWarning(v, "duplicate account codes", Cardinality(dup))
               /\ CountedWarning(v, "both debit and credit balances", Cardinality(both))
               /\ CountedWarning(v, "negative debit balances",
                                 Cardinality(RowsWhere(f, DEBIT_BALANCE, Negative)))
               /\ CountedWarning(v, "negative credit balances",
                                 Cardinality(RowsWhere(f, CREDIT_BALANCE, Negative)))
               /\ (/\ HasColumn(f, DEBIT_BALANCE) /\ HasColumn(f, CREDIT_BALANCE)
                   /\ Abs(SumCells(Series(f, DEBIT_BALANCE))
                          - SumCells(Series(f, CREDIT_BALANCE))) > TRIAL_BALANCE_TOLERANCE)
                  => \E i \in 1..Len(v.warnings) :
                         v.warnings[i].kind = "Trial balance doesn't balance"

-----------------------------------------------------------------------------
(* C12 *)

\* the rows of a mapped frame without a GRAP code
UnmappedRowsOf(mapped) == (1..Len(mapped.rows)) \ MappedRows(mapped)

Min(S) == CHOOSE x \in S : \A y \in S : x <= y

\* C12: validate_grap_mapping raises MappingError carrying the account code
\* of the first unmapped row whenever a row has no GRAP code; otherwise it
\* returns total_accounts = mapped_accounts = number of rows and
\* unmapped_accounts = 0.
C12_MappingErrorNamesFirstUnmapped ==
    (IsOk(mapped_df) /\ mapping_validation # None) =>
        LET m == mapped_df.val IN
        IF UnmappedRowsOf(m) # {}
        THEN /\ mapping_validation.st = "raised"
             /\ mapping_validation.exc = "MappingError"
             /\ mapping_validation.detail.account_code
                    = m.rows[Min(UnmappedRowsOf(m))][Loc(m, ACCOUNT_CODE)]
        ELSE mapping_validation = Ok([total_accounts |-> Len(m.rows),
                                      mapped_accounts |-> Len(m.rows),
                                      unmapped_accounts |-> 0])

-----------------------------------------------------------------------------
(* C13 *)

\* a statement dictionary lacks one of its keys
SectionMissing(position, performance) ==
    \/ ~({"assets", "liabilities", "net_assets"} \subseteq DOMAIN position)
    \/ ~({"revenue", "expenses", "surplus"} \subseteq DOMAIN performance)

\* a group that is present holds a GRAP code outside its prefixes
CodeOutsideGroup(position, performance) ==
    \E i \in 1..Len(sections_checked) :
        LET d == IF sections_checked[i][1] = "sofp" THEN position ELSE performance
            k == sections_checked[i][2]
        IN /\ k \in DOMAIN d
           /\ \E r \in 1..Len(d[k].rows) :
                 \A q \in sections_checked[i][3] : ~startswith(d[k].rows[r][1].s, q)

\* C13: validate_financial_statements returns true or raises ValidationError
\* and nothing else; it raises ValidationError when a position section or a
\* performance key is missing and when a GRAP code of a group does not start
\* with one of the group's prefixes; otherwise it returns true.
C13_TrueOrValidationError ==
    statements_validation # None =>
        LET v == statements_validation IN
        IF SectionMissing(v.sofp, v.sofe) \/ CodeOutsideGroup(v.sofp, v.sofe)
        THEN v.result = Raised("ValidationError")
        ELSE v.result = Ok(TRUE)

-----------------------------------------------------------------------------
(* C14 *)

CanonicalNames == {ACCOUNT_CODE, ACCOUNT_DESCRIPTION, DEBIT_BALANCE, CREDIT_BALANCE}

\* the tables the engine and the file service have returned
Normalised == {r.val : r \in {x \in {df, file_df} : IsOk(x)}}

\* the labels of the file, stripped
FileLabels == [i \in 1..Len(raw.val.columns) |-> strip(raw.val.columns[i])]

\* the labels the normalisers have produced
NormalisedLabels ==
    {f.columns : f \in Normalised}
    \cup (IF format_check # None /\ format_check.valid THEN {format_check.columns} ELSE {})

\* C14: a known variant is renamed only when its canonical name is not
\* already a column: no canonical name occurs twice after normalisation, a
\* canonical column of the file stays the one column of that name, and a
\* variant whose canonical name is absent is renamed.
C14_RenameOnlyWhenAbsent ==
    \A labels \in NormalisedLabels :
        \A c \in CanonicalNames :
            /\ Cardinality({i \in 1..Len(labels) : labels[i] = c}) <= 1
            /\ \A i \in 1..Len(FileLabels) :
                  /\ FileLabels[i] = c => {j \in 1..Len(labels) : labels[j] = c} = {i}
                  /\ (/\ FileLabels[i].name \in DOMAIN COLUMN_MAPPINGS
                      /\ L(COLUMN_MAPPINGS[FileLabels[i].name]) = c
                      /\ \A j \in 1..Len(FileLabels) : FileLabels[j] # c)
                     => labels[i] = c

-----------------------------------------------------------------------------
(* C15 *)

\* C15: in a normalised table every row's Net Balance is its Debit Balance
\* minus its Credit Balance, also when the file carried a Net Balance column.
C15_NetIsDebitMinusCredit ==
    \A f \in Normalised :
        (/\ Cardinality(Locs(f, DEBIT_BALANCE)) = 1
         /\ Cardinality(Locs(f, CREDIT_BALANCE)) = 1
         /\ HasColumn(f, NET_BALANCE))
        => \A r \in 1..Len(f.rows) :
               f.rows[r][Loc(f, NET_BALANCE)]
                   = Sub(f.rows[r][Loc(f, DEBIT_BALANCE)], f.rows[r][Loc(f, CREDIT_BALANCE)])

-----------------------------------------------------------------------------
(* C16 *)

\* the value of a debit or credit cell; 0 when the column or the value is missing
ValueOrZero(frame, row, c) ==
    IF HasColumn(frame, c) /\ ~isna(row[Loc(frame, c)]) THEN row[Loc(frame, c)].n ELSE 0

\* C16: a missing debit or credit value or column counts as 0 in the net
\* balance; normalisation fails, with ValidationError and no other error,
\* exactly when after renaming the Debit Balance and Credit Balance columns
\* are both absent and there is no Net Balance column.
C16_NormaliserInputPolicy ==
    \A r \in {x \in {df, file_df} : x # None} :
        raw.val.parses =>
            LET fr == DataFrame(normalised_columns(raw.val.columns), raw.val.rows) IN
            IF /\ ~HasColumn(fr, DEBIT_BALANCE) /\ ~HasColumn(fr, CREDIT_BALANCE)
               /\ ~HasColumn(fr, NET_BALANCE)
            THEN r = Raised("ValidationError")
            ELSE /\ IsOk(r)
                 /\ ~HasColumn(fr, NET_BALANCE) =>
                       \A i \in 1..Len(fr.rows) :
                           LET net == r.val.rows[i][Loc(r.val, NET_BALANCE)] IN
                           /\ ~isna(net)
                           /\ net.n = ValueOrZero(fr, fr.rows[i], DEBIT_BALANCE)
                                      - ValueOrZero(fr, fr.rows[i], CREDIT_BALANCE)

-----------------------------------------------------------------------------
(* C17 *)

\* the line items (grap_code, label, amount) of a statement group
LineItems(frame) ==
    {<<frame.rows[i][1].s, frame.rows[i][2].s, frame.rows[i][3].n>> :
        i \in 1..Len(frame.rows)}

\* C17: generating the statements a second time from the same file, on the
\* same engine or on a fresh one, gives the same sets of line items in every
\* group and the same surplus, although map_to_grap rewrites a column of its
\* input and of the engine's mapping table in place.
C17_RepeatedRunsAgree ==
    (IsOk(sofp) /\ IsOk(sofe) /\ second # None) =>
        /\ IsOk(second.sofp) /\ IsOk(second.sofe)
        /\ \A g \in {"assets", "liabilities", "net_assets"} :
              LineItems(second.sofp.val[g]) = LineItems(sofp.val[g])
        /\ \A g \in {"revenue", "expenses"} :
              LineItems(second.sofe.val[g]) = LineItems(sofe.val[g])
        /\ second.sofe.val.surplus = sofe.val.surplus

\* a second run on the same engine, of a file whose integer account codes
\* map_to_grap has converted in place, with line items in both statements
C17_Witness ==
    /\ IsOk(sofp) /\ IsOk(sofe) /\ second # None
    /\ second.same_engine
    /\ \E r \in 1..Len(raw.val.rows) : raw.val.rows[r][1].t = "int"
    /\ \E r \in 1..Len(df.val.rows) : df.val.rows[r][1] = Str(C1000)
    /\ Len(raw.val.rows) = 2
    /\ LineItems(second.sofp.val.assets) # {}
    /\ Cardinality(LineItems(second.sofp.val.assets)) = 2

-----------------------------------------------------------------------------
(* C20 *)

\* the (account_code, grap_code, grap_item) entries of a mapping table
Entries(schema) ==
    {<<schema.rows[i][1], schema.rows[i][2], schema.rows[i][3]>> : i \in 1..Len(schema.rows)}

\* C20: after any sequence of map_to_grap and statement-generation calls the
\* entries of the engine's mapping table are the ones loaded at construction.
C20_MappingTableReadOnly ==
    /\ Entries(mapping_schema) = Entries(load_mapping_schema)
    /\ Len(mapping_schema.rows) = Len(load_mapping_schema.rows)
    /\ mapping_schema.columns = load_mapping_schema.columns

\* two map_to_grap calls on the same engine and both statements generated
C20_Witness ==
    /\ IsOk(mapped_df) /\ IsOk(sofp) /\ IsOk(sofe)
    /\ second # None /\ second.same_engine /\ IsOk(second.sofp)
    /\ MappedRows(mapped_df.val) # {}
    /\ UnmappedRowsOf(mapped_df.val) # {}

-----------------------------------------------------------------------------
(* C18 *)

\* what one execution alone makes of a file: its locals
Alone(file) == ImportStage(file, {}, 0)[1]

\* the execution got through the unmapped gate and generated both statements
GeneratedStatements(t) ==
    /\ runs[t].pc = "done"
    /\ IsOk(runs[t].locals.sofp) /\ IsOk(runs[t].locals.sofe)

\* C18: in every interleaving of two runs over different files each run
\* computes what it computes alone (no state is shared), and the results
\* file of a run that generated its statements exists in the data directory
\* and holds that run's own statements, whatever the other run has done.
C18_RunsIndependent ==
    \A t \in Threads :
        /\ runs[t].pc = "done" /\ runs[t].response.code # 404
           => /\ runs[t].locals.mapped_data = Alone(runs[t].file.val).mapped_data
              /\ runs[t].locals.sofp = Alone(runs[t].file.val).sofp
              /\ runs[t].locals.sofe = Alone(runs[t].file.val).sofe
        /\ GeneratedStatements(t)
           => /\ IsOk(runs[t].locals.results_file)
              /\ \E f \in data_dir :
                    /\ f.name = runs[t].locals.results_file.val
                    /\ f.data.sofp.assets
                           = convert_df_to_serializable(runs[t].locals.sofp.val.assets)
                    /\ f.data.sofe.revenue
                           = convert_df_to_serializable(runs[t].locals.sofe.val.revenue)

-----------------------------------------------------------------------------
(* C19 *)

\* the locals of the handler in the order the handler assigns them
StageOrder ==
    <<"trial_balance", "mapped_data", "sofp", "sofe", "scf", "ratios", "summary",
      "results_file">>

\* nothing is assigned after a stage that did not return
NoLaterStage(locals) ==
    \A i \in 1..(Len(StageOrder) - 1) :
        ~IsOk(locals[StageOrder[i]]) => locals[StageOrder[i + 1]] = None

\* C19: a request answered with success = false has executed no stage after
\* the one that failed, names no results file, and has left the data
\* directory as it found it: no file, whole or partial, was written for it.
C19_AbortOnFailure ==
    [][(response' # None /\ ~response'.body.success)
          => /\ response'.code \in {400, 404, 500}
             /\ NoLaterStage(run')
             /\ run'.results_file = None
             /\ data_dir' = data_dir]_vars

\* a run that generated both statements and failed at the next call
C19_Witness ==
    /\ response # None /\ response.code = 500 /\ ~response.body.success
    /\ IsOk(run.sofp) /\ IsOk(run.sofe) /\ run.scf # None /\ ~IsOk(run.scf)
    /\ run.ratios = None /\ run.summary = None /\ run.results_file = None

-----------------------------------------------------------------------------
(* C24 *)

\* the imbalance finding among the messages of a result
Imbalance(messages) ==
    {i \in 1..Len(messages) : messages[i].kind = "Trial balance doesn't balance"}

\* |sum(Debit Balance) - sum(Credit Balance)| of the validated table, in cents
DecimalDifference ==
    Abs(SumCells(Series(df.val, DEBIT_BALANCE)) - SumCells(Series(df.val, CREDIT_BALANCE)))

\* C24: raw validation of a table with both balance columns reports the
\* imbalance warning exactly when the debit and credit sums differ by more
\* than 0.01 (a difference of exactly 0.01 is not reported); the finding is
\* a warning, never an error, and valid is false only when there are errors.
C24_ImbalanceWarningStrict ==
    \A result \in {integrity, tb_validation} \ {None} :
        /\ (HasColumn(df.val, DEBIT_BALANCE) /\ HasColumn(df.val, CREDIT_BALANCE))
              => (Imbalance(result.warnings) # {}
                     <=> DecimalDifference > TRIAL_BALANCE_TOLERANCE)
        /\ Imbalance(result.errors) = {}
        /\ result.valid <=> result.errors = <<>>

-----------------------------------------------------------------------------
(* C25 *)

\* the table of the file under its normalised labels
Supplied == DataFrame(normalised_columns(raw.val.columns), raw.val.rows)

\* C25: a normaliser that returns leaves a file that carries a Net Balance
\* column as it was read, every cell of every row, and adds no column; it
\* appends a Net Balance column, debit minus credit of each row, only to a
\* file that carries none.
C25_NetBalanceNotOverwritten ==
    \A f \in Normalised :
        IF HasColumn(Supplied, NET_BALANCE)
        THEN f = Supplied
        ELSE /\ f.columns = Append(Supplied.columns, NET_BALANCE)
             /\ \A r \in 1..Len(f.rows) :
                   f.rows[r] = Append(Supplied.rows[r],
                                      Sub(Supplied.rows[r][Loc(Supplied, DEBIT_BALANCE)],
                                          Supplied.rows[r][Loc(Supplied, CREDIT_BALANCE)]))

\* both normalisers have returned a file whose Net Balance differs from debit
\* minus credit on some row
C25_Witness ==
    /\ IsOk(df) /\ IsOk(file_df)
    /\ HasColumn(Supplied, NET_BALANCE) /\ HasColumn(Supplied, DEBIT_BALANCE)
    /\ \E r \in 1..Len(Supplied.rows) :
          /\ df.val.rows[r][Loc(df.val, NET_BALANCE)]
                 # Sub(Supplied.rows[r][Loc(Supplied, DEBIT_BALANCE)],
                       Supplied.rows[r][Loc(Supplied, CREDIT_BALANCE)])
          /\ file_df.val.rows[r][Loc(file_df.val, NET_BALANCE)]
                 = Supplied.rows[r][Loc(Supplied, NET_BALANCE)]

-----------------------------------------------------------------------------
(* C27 *)

\* the five groups the statement builders have produced
BuiltGroups ==
    <<sofp.val.assets, sofp.val.liabilities, sofp.val.net_assets,
      sofe.val.revenue, sofe.val.expenses>>

\* the places (group, row) at which a GRAP code has been selected
PlacesOf(code) ==
    {<<g, r>> \in (1..Len(BuiltGroups)) \X (1..MaxRows) :
        /\ r <= Len(BuiltGroups[g].rows)
        /\ BuiltGroups[g].rows[r][1] = code}

\* the substring tests of the two builders
BuilderPatterns == <<{CA, NCA}, {CL, NCL}, {NA}, {REV}, {EXP}>>

\* C27: every grap_code of the compiled mapping table passes exactly one of
\* the five substring tests of the builders, and the builders select every
\* code of a mapped trial balance into exactly one group, once.
C27_TaxonomyPartition ==
    /\ \A i \in 1..Len(mapping_schema.rows) :
          Cardinality({g \in 1..Len(BuilderPatterns) :
                          str_contains(mapping_schema.rows[i][2], BuilderPatterns[g])}) = 1
    /\ (IsOk(sofp) /\ IsOk(sofe))
          => \A r \in 1..Len(mapped_df.val.rows) :
                 Cardinality(PlacesOf(mapped_df.val.rows[r][Loc(mapped_df.val, L("grap_code"))]))
                     = 1

\* both statements are built from a current and a non-current item, whose
\* codes share the substring CA- or CL-
C27_Witness ==
    /\ IsOk(sofp) /\ IsOk(sofe)
    /\ \E r, q \in 1..Len(mapped_df.val.rows) :
          LET k == Loc(mapped_df.val, L("grap_code")) IN
          /\ startswith(mapped_df.val.rows[r][k].s, NCA) \/ startswith(mapped_df.val.rows[r][k].s, NCL)
          /\ startswith(mapped_df.val.rows[q][k].s, NA) \/ startswith(mapped_df.val.rows[q][k].s, EXP)

-----------------------------------------------------------------------------
(* C28 *)

\* the validator has been given the statements as the builders returned them
ValidatedAsBuilt ==
    /\ IsOk(sofp) /\ IsOk(sofe) /\ statements_validation # None
    /\ statements_validation.sofp = sofp.val
    /\ statements_validation.sofe = sofe.val

\* C28: the statements the builders produce from a trial balance whose
\* accounts are all mapped are accepted by validate_financial_statements: it
\* returns True.
C28_BuilderConformsToValidator ==
    (ValidatedAsBuilt /\ UnmappedRowsOf(mapped_df.val) = {})
        => statements_validation.result = Ok(TRUE)

\* accepted statements with a non-current asset or liability and an item of
\* another group
C28_Witness ==
    /\ ValidatedAsBuilt
    /\ statements_validation.result = Ok(TRUE)
    /\ \E g \in {sofp.val.assets, sofp.val.liabilities} :
          \E r \in 1..Len(g.rows) : startswith(g.rows[r][1].s, <<"N">>)
    /\ Len(sofp.val.net_assets.rows) + Len(sofe.val.revenue.rows)
           + Len(sofe.val.expenses.rows) > 0

-----------------------------------------------------------------------------
(* C29 *)

\* C29: on the same table validators.validate_trial_balance and
\* ValidationService.validate_trial_balance_integrity return the same valid
\* flag, the same errors and the same warnings, each in the same order, and
\* the same total_accounts.
C29_ValidatorsAgree ==
    (integrity # None /\ tb_validation # None) =>
        /\ tb_validation.valid = integrity.valid
        /\ tb_validation.errors = integrity.errors
        /\ tb_validation.warnings = integrity.warnings
        /\ tb_validation.total_accounts = integrity.total_accounts

\* both have validated a table that has an error and several warnings
C29_Witness ==
    /\ integrity # None /\ tb_validation # None
    /\ ~integrity.valid
    /\ Len(tb_validation.errors) > 0
    /\ Len(tb_validation.warnings) > 1

-----------------------------------------------------------------------------
(* C21 *)

\* a step in which a request is handled
Handled == http = None /\ http' # None

\* the routes that need no login
OpenPaths == {"/login", "/logout", "/debug-session"}

RedirectedToLogin(reply) ==
    /\ reply.code = 302
    /\ reply.view = NoView
    /\ reply.body.redirect = "login"

\* C21: a request to one of the routes /, /upload, /results, /reports,
\* /export, /admin, /about, /api/upload, /api/process, /api/generate-pdf and
\* /download/<filename>, made with a session that holds no user_id, never
\* runs the body of the route's handler and is answered with a redirect to
\* the login page.
C21_LoginRequired ==
    [][(/\ Handled
        /\ "user_id" \notin DOMAIN session
        /\ http'.request.path \in ProtectedPaths
        /\ http'.request.method \in url_map[http'.request.path])
       => RedirectedToLogin(http'.reply)]_vars

\* /api/process has been requested with no user_id in the session, after the
\* user store was edited
C21_Witness ==
    /\ http # None
    /\ http.request.path = "/api/process" /\ http.request.method = "POST"
    /\ "user_id" \notin DOMAIN session
    /\ http.reply.code = 302
    /\ users # demo_users

-----------------------------------------------------------------------------
(* C22 *)

AdminRequested(exchange) ==
    /\ exchange.request.path = "/admin"
    /\ exchange.request.method = "GET"

RendersAdmin(reply) ==
    reply.code = 200 /\ reply.view = "admin_page" /\ reply.body.template = "admin.html"

RedirectedToDashboard(reply) ==
    reply.code = 302 /\ reply.view = "admin_page" /\ reply.body.redirect = "index"

\* C22: whatever the session and the user store have come to, GET /admin
\* renders the administration page only when the session's user is in the
\* store with the role CFO at the time of the request, and a logged-in user
\* whose role in the store is another one is redirected to the dashboard.
C22_AdminOnlyForCFO ==
    [][(Handled /\ AdminRequested(http'))
       => LET user == get_current_user(users, session) IN
          /\ RendersAdmin(http'.reply) => (user # None /\ user.role = "CFO")
          /\ (user # None /\ user.role # "CFO") => RedirectedToDashboard(http'.reply)]_vars

\* the user who logged in as CFO has since been given another role, and is
\* redirected
C22_Witness ==
    /\ http # None /\ AdminRequested(http)
    /\ "role" \in DOMAIN session /\ session["role"] = "CFO"
    /\ get_current_user(users, session) # None
    /\ get_current_user(users, session).role # "CFO"
    /\ RedirectedToDashboard(http.reply)

-----------------------------------------------------------------------------
(* C23 *)

LoginPosted(exchange) ==
    /\ exchange.request.path = "/login"
    /\ exchange.request.method = "POST"

\* the username of the form exists in the store, the password of the form is
\* the one its hash was made from, and the user is active
Verifies(store, form) ==
    LET user == get_user_by_username(store, form.username) IN
    /\ user # None
    /\ IsOk(form.password) /\ form.password.val = user.password_hash.of
    /\ user.is_active

StoresUser(sess, user) ==
    /\ {"user_id", "username", "role", "full_name"} \subseteq DOMAIN sess
    /\ sess["user_id"] = user.id /\ sess["username"] = user.username
    /\ sess["role"] = user.role /\ sess["full_name"] = user.full_name

RendersLoginWith(reply, message) ==
    /\ reply.code = 200
    /\ reply.body.template = "login.html"
    /\ reply.body.flashed = message

\* C23: POST /login stores user_id, username, role and full_name in the
\* session exactly when the username exists, the password verifies and the
\* user is active; a failed attempt leaves the session as it was, also when
\* a user is logged in, and renders the login page again with the message
\* 'Invalid username or password.'.
C23_LoginStoresIffVerified ==
    [][(Handled /\ LoginPosted(http'))
       => IF Verifies(users, http'.request.args)
          THEN StoresUser(session',
                          get_user_by_username(users, http'.request.args.username))
          ELSE /\ session' = session
               /\ RendersLoginWith(http'.reply, "Invalid username or password.")]_vars

-----------------------------------------------------------------------------
(* C26 *)

\* the roles the claim gives each API route
ApiRoles ==
    [p \in {"/api/upload"} |-> {"CFO", "ACCOUNTANT", "CLERK"}]
    @@ [p \in {"/api/process", "/api/generate-pdf"} |-> {"CFO", "ACCOUNTANT"}]

ApiPosted(exchange) ==
    /\ exchange.request.path \in ApiPaths
    /\ exchange.request.method = "POST"

\* C26: after any sequence of logins, logouts and edits of the user store,
\* the body of /api/upload runs only when the role the store gives the
\* session's user at the time of the request is CFO, ACCOUNTANT or CLERK,
\* and the bodies of /api/process and /api/generate-pdf only when it is CFO
\* or ACCOUNTANT; a logged-in user whose role in the store is AUDITOR or is
\* not a known role runs none of the three and receives 403; a session whose
\* user_id is not in the store receives 401.
C26_ApiRoleGating ==
    [][(Handled /\ ApiPosted(http'))
       => LET user == get_current_user(users, session)
              reply == http'.reply
          IN
          /\ reply.view # NoView =>
                (user # None /\ user.role \in ApiRoles[http'.request.path])
          /\ (user # None /\ user.role \notin {"CFO", "ACCOUNTANT", "CLERK"}) =>
                (reply.view = NoView /\ reply.code = 403)
          /\ ("user_id" \in DOMAIN session /\ user = None) =>
                (reply.view = NoView /\ reply.code = 401)]_vars

\* a user who logged in as ACCOUNTANT and is AUDITOR in the store by now has
\* been refused /api/process
C26_Witness ==
    /\ http # None /\ ApiPosted(http)
    /\ http.request.path = "/api/process"
    /\ "role" \in DOMAIN session /\ session["role"] = "ACCOUNTANT"
    /\ get_current_user(users, session) # None
    /\ get_current_user(users, session).role = "AUDITOR"
    /\ http.reply.code = 403

-----------------------------------------------------------------------------
(* C30 *)

LogoutRequested(exchange) ==
    /\ exchange.request.path = "/logout"
    /\ exchange.request.method = "GET"

ProtectedRequested(exchange) ==
    /\ exchange.request.path \in ProtectedPaths
    /\ exchange.request.method \in url_map[exchange.request.path]

SuccessfulLogin(exchange) ==
    /\ LoginPosted(exchange)
    /\ exchange.reply.code = 302 /\ exchange.reply.body.redirect = "index"

UserKeys == {"user_id", "username", "role", "full_name"}

\* C30: GET /logout leaves a session that holds none of user_id, username,
\* role and full_name and is answered with a redirect to the login page,
\* whether or not a user was logged in; from then on the session holds no
\* user_id until a POST /login succeeds, and every request to a protected
\* route made in the meantime is redirected to the login page.
C30_LogoutEndsSession ==
    [][/\ (Handled /\ LogoutRequested(http')) =>
              /\ DOMAIN session' \cap UserKeys = {}
              /\ http'.reply.code = 302 /\ http'.reply.body.redirect = "login"
       /\ ("user_id" \notin DOMAIN session /\ "user_id" \in DOMAIN session') =>
              (Handled /\ SuccessfulLogin(http'))
       /\ (Handled /\ ProtectedRequested(http') /\ DOMAIN session \cap UserKeys = {}) =>
              (RedirectedToLogin(http'.reply) /\ DOMAIN session' \cap UserKeys = {})]_vars

\* a logout has been answered while no user was logged in and the user store
\* had been edited
C30_Witness ==
    /\ http # None /\ LogoutRequested(http)
    /\ session = EmptySession
    /\ http.reply.code = 302
    /\ users # demo_users

====
